---- MODULE Spec2Model ----
(***************************************************************************)
(* A model of the bubble-slingshot engine of components/GeminiSlingshot.tsx *)
(* (hex grid, snap, colour flood fill, orphan detection, row spawner, quiz  *)
(* gate) and of services/geminiService.ts as far as the quiz gate uses it.  *)
(*                                                                         *)
(* Lengths are integers in 1/Unit of a pixel, times are milliseconds.      *)
(* Math.random() and the player's input are nondeterministic choices.      *)
(***************************************************************************)
EXTENDS Integers, Sequences, FiniteSets, TLC

(***************************************************************************)
(* Bounds of the model.  The program's own sizes are capped by them.       *)
(***************************************************************************)
\* cap on gridColsRef (the program keeps it in 5..16)
GridCols == 3
\* cap on the snap scan window GRID_ROWS + 10
ScanRows == 2
\* cap on DIFFICULTY_CONFIG[d].initialRows
InitRows == 1
\* number of COLOR_KEYS entries in play
NumColors == 2
\* most cells a grid fill (initGrid, addNewRow) may leave unpopulated
MaxGaps == 0
\* length of a game: projectiles launched, long frame gaps and direct calls
\* of completeMatch(false)
MaxMoves == 2
\* cap on DIFFICULTY_CONFIG[d].winScore
MaxWinScore == 1500
\* frames a floating bubble stays on screen before it has left the canvas
FallFrames == 2
\* length resolution: units per pixel
Unit == 10
\* rows and columns of the cells isNeighbor is applied to, 0..NbrMax
NbrMax == 3
PickLen == 2
QuizNumber == 7
AnswerLen == 3

(***************************************************************************)
(* Program constants                                                       *)
(***************************************************************************)
BUBBLE_RADIUS == 20 * Unit
\* BUBBLE_RADIUS * Math.sqrt(3), rounded down to the length resolution
ROW_HEIGHT == (34641 * Unit) \div 1000
MAX_GRID_COLS == 16
GRID_ROWS == 10
SLINGSHOT_BOTTOM_OFFSET == 220 * Unit
POP_DURATION == 350
FLIGHT_WATCHDOG == 5000
FLAT_BONUS == 500
MIN_CLUSTER == 3

ALL_COLOR_KEYS == <<"red", "blue", "green", "yellow", "purple", "orange">>

COLOR_KEYS == {ALL_COLOR_KEYS[i] : i \in 1..NumColors}

COLOR_CONFIG ==
    [red |-> [points |-> 100], blue |-> [points |-> 150],
     green |-> [points |-> 200], yellow |-> [points |-> 250],
     purple |-> [points |-> 300], orange |-> [points |-> 500]]

\* Number.MAX_SAFE_INTEGER is written as the largest integer TLC holds
DIFFICULTY_CONFIG ==
    [Easy     |-> [dropInterval |-> 60000, initialRows |-> 6,  winScore |-> 3000],
     Medium   |-> [dropInterval |-> 40000, initialRows |-> 8,  winScore |-> 8000],
     Hard     |-> [dropInterval |-> 20000, initialRows |-> 10, winScore |-> 15000],
     Infinity |-> [dropInterval |-> 30000, initialRows |-> 9,  winScore |-> 2147483647]]

Difficulties == {"Easy"}

Min(a, b) == IF a <= b THEN a ELSE b

Max(a, b) == IF a >= b THEN a ELSE b

Abs(n) == IF n < 0 THEN -n ELSE n

(***************************************************************************)
(* State                                                                   *)
(***************************************************************************)
VARIABLES
    bubbles,          \* bubbles.current: sequence of Bubble records, in array order
    nextId,           \* next fresh bubble id (ids are built from Date.now())
    moves,            \* projectiles launched and direct completeMatch(false) calls so far
    scoreRef,         \* scoreRef.current
    now,              \* the clock performance.now() as of the last frame
    lastDropTimeRef,  \* lastDropTimeRef.current
    canvasHeight,     \* canvas.height, in pixels
    difficulty,       \* userProfile.difficulty
    isFlying, isPinching, isDragging,
    ballPos,          \* "anchor" (within 30 px of the anchor), "pulled", "air"
    flightStartTime,
    isQuizActiveRef,
    pendingMatches,   \* React state: sequence of the pending bubbles (id, color)
    quizLoading, quizData, quizResult,
    loadsPending,     \* question loads of triggerQuiz not yet settled
    timers,           \* completeMatch closures scheduled by handleQuizSubmit
    currentAmmo, nextAmmo,
    gameOver, gameWon, hasWonRef, isPaused,
    matches,          \* the flight step of the last frame: the start bubble's
                      \* id and the ids of the matches array of its
                      \* checkMatches call, in order, and whether the
                      \* watchdog gave the flight up
    floating,         \* the ids findFloatingBubbles returned to the last
                      \* completeMatch since the last frame
    pendingWait,      \* history: clock time spent with a match pending since
                      \* lastDropTimeRef was last set
    nbr,              \* arguments and results of isNeighbor (SpecNbr)
    pick,             \* arguments and result of getNextBubbleColor (SpecColor)
    quizCall,         \* inputs and result of generateQuizQuestion (SpecQuiz)
    showLeaderboard,  \* the leaderboard overlay is up
    answerCall        \* inputs and verdict of handleQuizSubmit's comparison (SpecAnswer)

vars == <<bubbles, nextId, moves, scoreRef, now, lastDropTimeRef, canvasHeight,
          difficulty, isFlying, isPinching, isDragging, ballPos,
          flightStartTime, isQuizActiveRef, pendingMatches, quizLoading,
          quizData, quizResult, loadsPending, timers, currentAmmo, nextAmmo,
          gameOver, gameWon, hasWonRef, isPaused, matches, floating,
          pendingWait, nbr, pick, quizCall, showLeaderboard, answerCall>>

gameVars == <<bubbles, nextId, moves, scoreRef, now, lastDropTimeRef, canvasHeight,
              difficulty, isFlying, isPinching, isDragging, ballPos,
              flightStartTime, isQuizActiveRef, pendingMatches, quizLoading,
              quizData, quizResult, loadsPending, timers, currentAmmo, nextAmmo,
              gameOver, gameWon, hasWonRef, isPaused, matches, floating,
              pendingWait, showLeaderboard>>

(***************************************************************************)
(* Grid geometry                                                           *)
(***************************************************************************)
\* the width the model's canvas has: the grid plus 20 px on either side
canvasWidth == (GridCols * 40 + 40) * Unit

\* gridColsRef.current as initGrid sets it, capped by the model's bound
gridColsRef ==
    Min(GridCols,
        Min(MAX_GRID_COLS,
            Max(5, (canvasWidth - 40 * Unit) \div ((BUBBLE_RADIUS * 21) \div 10))))

getBubblePos(row, col, width) ==
    LET cols == gridColsRef
        xOffset == (width - (cols * BUBBLE_RADIUS * 2)) \div 2 + BUBBLE_RADIUS
        isOdd == row % 2 # 0
    IN  [x |-> xOffset + col * (BUBBLE_RADIUS * 2) + (IF isOdd THEN BUBBLE_RADIUS ELSE 0),
         y |-> BUBBLE_RADIUS + row * ROW_HEIGHT]

\* the mutant of isNeighbor that takes the parity of the second cell's row
isNeighborParityOfB(a, b) ==
    LET dr == b.row - a.row
        dc == b.col - a.col
    IN  IF Abs(dr) > 1 THEN FALSE
        ELSE IF dr = 0 THEN Abs(dc) = 1
        ELSE IF b.row % 2 # 0 THEN dc = 0 \/ dc = 1
        ELSE dc = -1 \/ dc = 0

\* the mutant of isNeighbor that forgets the row parity
isNeighborNoParity(a, b) ==
    LET dr == b.row - a.row
        dc == b.col - a.col
    IN  IF Abs(dr) > 1 THEN FALSE
        ELSE IF dr = 0 THEN Abs(dc) = 1
        ELSE dc = 0 \/ dc = 1

isNeighbor(a, b) ==
    LET dr == b.row - a.row
        dc == b.col - a.col
    IN  IF Abs(dr) > 1 THEN FALSE
        ELSE IF dr = 0 THEN Abs(dc) = 1
        ELSE IF a.row % 2 # 0 THEN dc = 0 \/ dc = 1
        ELSE dc = -1 \/ dc = 0

(***************************************************************************)
(* Board: bubbles are records                                              *)
(*   [id, row, col, color, active, isFloating, popTime, fall]              *)
(* popTime = -1 stands for an unset popTime.  A settled bubble sits at     *)
(* getBubblePos(row, col); a floating bubble's fall is counted in frames   *)
(* (field fall) since it last sat at a grid position.                      *)
(***************************************************************************)
NewBubble(id, row, col, color) ==
    [id |-> id, row |-> row, col |-> col, color |-> color, active |-> TRUE,
     isFloating |-> FALSE, popTime |-> -1, fall |-> 0]

\* b.active && !b.isFloating
Settled(b) == b.active /\ ~b.isFloating

SeqToSet(s) == {s[i] : i \in 1..Len(s)}

Ids(s) == {s[i].id : i \in 1..Len(s)}

\* the mutant of checkMatchesLoop that follows neighbours of any colour
RECURSIVE checkMatchesLoopAnyColor(_, _, _, _, _)
checkMatchesLoopAnyColor(bs, color, toCheck, visited, acc) ==
    IF toCheck = <<>> THEN acc
    ELSE LET current == toCheck[Len(toCheck)]
             rest == SubSeq(toCheck, 1, Len(toCheck) - 1)
         IN  IF current.id \in visited
             THEN checkMatchesLoopAnyColor(bs, color, rest, visited, acc)
             ELSE LET seen == visited \cup {current.id}
                      Want(b) == /\ Settled(b) /\ b.id \notin seen
                                 /\ isNeighbor(current, b)
                  IN  checkMatchesLoopAnyColor(bs, color, rest \o SelectSeq(bs, Want),
                                               seen, Append(acc, current))

\* the mutant of checkMatchesLoop that stops at the start bubble's neighbours
RECURSIVE checkMatchesLoopOneHop(_, _, _, _, _)
checkMatchesLoopOneHop(bs, color, toCheck, visited, acc) ==
    IF toCheck = <<>> THEN acc
    ELSE LET current == toCheck[Len(toCheck)]
             rest == SubSeq(toCheck, 1, Len(toCheck) - 1)
         IN  IF current.id \in visited
             THEN checkMatchesLoopOneHop(bs, color, rest, visited, acc)
             ELSE LET seen == visited \cup {current.id}
                      Want(b) == /\ Settled(b) /\ b.id \notin seen
                                 /\ isNeighbor(current, b)
                  IN  IF current.color = color
                      THEN checkMatchesLoopOneHop(bs, color,
                               IF acc = <<>> THEN rest \o SelectSeq(bs, Want) ELSE rest,
                               seen, Append(acc, current))
                      ELSE checkMatchesLoopOneHop(bs, color, rest, seen, acc)

\* the while loop of checkMatches: toCheck is the stack (popped at its end),
\* visited the set of ids, acc the matches array
RECURSIVE checkMatchesLoop(_, _, _, _, _)
checkMatchesLoop(bs, color, toCheck, visited, acc) ==
    IF toCheck = <<>> THEN acc
    ELSE LET current == toCheck[Len(toCheck)]
             rest == SubSeq(toCheck, 1, Len(toCheck) - 1)
         IN  IF current.id \in visited
             THEN checkMatchesLoop(bs, color, rest, visited, acc)
             ELSE LET seen == visited \cup {current.id}
                      Want(b) == /\ Settled(b) /\ b.id \notin seen
                                 /\ isNeighbor(current, b)
                  IN  IF current.color = color
                      THEN checkMatchesLoop(bs, color, rest \o SelectSeq(bs, Want),
                                            seen, Append(acc, current))
                      ELSE checkMatchesLoop(bs, color, rest, seen, acc)

\* the mutant of checkMatchesArray that leaves the start bubble out
checkMatchesArrayWithoutStart(bs, startBubble) ==
    SelectSeq(checkMatchesLoop(bs, startBubble.color, <<startBubble>>, {}, <<>>),
              LAMBDA b : b.id # startBubble.id)

\* the matches array checkMatches(startBubble) builds over bubbles.current = bs
checkMatchesArray(bs, startBubble) ==
    checkMatchesLoop(bs, startBubble.color, <<startBubble>>, {}, <<>>)

\* the mutant of floodLoop that never leaves the ceiling row
floodLoopCeilingOnly(bs, queue, head, connected) == connected

\* the while loop of findFloatingBubbles: queue with its head index and the
\* connected id set
RECURSIVE floodLoop(_, _, _, _)
floodLoop(bs, queue, head, connected) ==
    IF head > Len(queue) THEN connected
    ELSE LET curr == queue[head]
             Want(b) == /\ Settled(b) /\ b.id \notin connected
                        /\ isNeighbor(curr, b)
             neighbors == SelectSeq(bs, Want)
         IN  floodLoop(bs, queue \o neighbors, head + 1,
                       connected \cup Ids(neighbors))

findFloatingBubbles(allBubbles) ==
    LET IsCeiling(b) == b.row = 0 /\ Settled(b)
        queue == SelectSeq(allBubbles, IsCeiling)
        connected == floodLoop(allBubbles, queue, 1, Ids(queue))
        IsOrphan(b) == Settled(b) /\ b.id \notin connected
    IN  SelectSeq(allBubbles, IsOrphan)

(***************************************************************************)
(* Grid fills: initGrid and addNewRow                                      *)
(***************************************************************************)
\* const cols = r % 2 !== 0 ? gridColsRef.current - 1 : gridColsRef.current
colsInRow(r) == IF r % 2 # 0 THEN gridColsRef - 1 ELSE gridColsRef

\* the cells the nested loops over rows and columns visit, in loop order
RECURSIVE cellsFrom(_, _, _)
cellsFrom(r, c, rows) ==
    IF r >= rows THEN <<>>
    ELSE IF c >= colsInRow(r) THEN cellsFrom(r + 1, 0, rows)
    ELSE <<[row |-> r, col |-> c]>> \o cellsFrom(r, c + 1, rows)

initialRows(d) == Min(InitRows, DIFFICULTY_CONFIG[d].initialRows)

numColors(d) ==
    CASE d = "Easy" -> 4 [] d = "Hard" -> 6 [] d = "Infinity" -> 6 [] OTHER -> 5

\* [...COLOR_KEYS].sort(random).slice(0, numColors)
LevelPalettes(d) ==
    {P \in SUBSET COLOR_KEYS :
        Cardinality(P) = Min(numColors(d), Cardinality(COLOR_KEYS))}

\* the outcomes of the Math.random() < density draws over a list of cells:
\* a colour for a populated cell, "none" for a cell left out
Fills(cells) ==
    {f \in [1..Len(cells) -> COLOR_KEYS \cup {"none"}] :
        Cardinality({i \in 1..Len(cells) : f[i] = "none"}) <= MaxGaps}

\* the bubbles pushed for a fill, in loop order, with fresh ids from id0
fillBubbles(cells, fill, id0) ==
    LET idx == SelectSeq([i \in 1..Len(cells) |-> i], LAMBDA i : fill[i] # "none")
    IN  [k \in 1..Len(idx) |->
            NewBubble(id0 + k - 1, cells[idx[k]].row, cells[idx[k]].col, fill[idx[k]])]

\* the colour choice of initGrid's loop body for the k-th pushed bubble
initGridColorOk(newBubbles, k, levelPalette) ==
    LET forbidden ==
            IF k >= 3
            THEN IF /\ newBubbles[k - 1].row = newBubbles[k].row
                    /\ newBubbles[k - 1].color = newBubbles[k - 2].color
                 THEN {newBubbles[k - 1].color} ELSE {}
            ELSE {}
        candidates == IF levelPalette \ forbidden = {} THEN levelPalette
                      ELSE levelPalette \ forbidden
    IN  newBubbles[k].color \in candidates

\* the arrays initGrid can assign to bubbles.current
initGrid(d, id0) ==
    LET cells == cellsFrom(0, 0, initialRows(d))
    IN  {nb \in {fillBubbles(cells, f, id0) : f \in Fills(cells)} :
            \E levelPalette \in LevelPalettes(d) :
                \A k \in 1..Len(nb) : initGridColorOk(nb, k, levelPalette)}

\* the colours getNextBubbleColor can return
getNextBubbleColor(currentBubbles, forbiddenColors, d) ==
    LET activeColors == {currentBubbles[i].color :
                            i \in {j \in 1..Len(currentBubbles) : currentBubbles[j].active}}
        unforbidden == activeColors \ forbiddenColors
        candidates == IF unforbidden = {} THEN COLOR_KEYS \ forbiddenColors
                      ELSE unforbidden
        allValid == COLOR_KEYS \ forbiddenColors
    IN  IF activeColors = {} THEN COLOR_KEYS
        ELSE IF candidates = {} THEN COLOR_KEYS
        ELSE candidates \cup allValid

\* a shift that puts a falling bubble back on the grid
shiftDownSettles(bs) ==
    [i \in 1..Len(bs) |-> [bs[i] EXCEPT !.row = @ + 1, !.fall = 0,
                                        !.isFloating = FALSE]]

\* bubbles.current.forEach(b => { b.row += 1; b.x = pos.x; b.y = pos.y })
shiftDown(bs) ==
    [i \in 1..Len(bs) |-> [bs[i] EXCEPT !.row = @ + 1, !.fall = 0]]

\* the mutant of lossLine that forgets the 80 px margin
lossLineNoMargin == canvasHeight * Unit - SLINGSHOT_BOTTOM_OFFSET

\* canvasHeight - SLINGSHOT_BOTTOM_OFFSET - 80
lossLine == canvasHeight * Unit - SLINGSHOT_BOTTOM_OFFSET - 80 * Unit

gridY(b) == getBubblePos(b.row, b.col, canvasWidth).y

\* lowestY > canvasHeight - SLINGSHOT_BOTTOM_OFFSET - 80 over the shifted array
rowLoses(shifted) ==
    \E i \in 1..Len(shifted) : shifted[i].active /\ gridY(shifted[i]) > lossLine

\* a forbidden list that is always empty
rowForbiddenNone(newRowBubbles) == {}

\* the forbidden list addNewRow builds before it pushes the next bubble onto
\* newRowBubbles
rowForbidden(newRowBubbles) ==
    LET n == Len(newRowBubbles)
    IN  IF n >= 2
        THEN IF newRowBubbles[n].color = newRowBubbles[n - 1].color
             THEN {newRowBubbles[n].color} ELSE {}
        ELSE {}

\* the newRowBubbles arrays addNewRow can build over the shifted array
newRows(shifted, d, id0) ==
    LET cells == [c \in 1..gridColsRef |-> [row |-> 0, col |-> c - 1]]
        ColorOk(nb, k) ==
            LET forbidden == rowForbidden(SubSeq(nb, 1, k - 1))
            IN  nb[k].color \in getNextBubbleColor(shifted, forbidden, d)
    IN  {nb \in {fillBubbles(cells, f, id0) : f \in Fills(cells)} :
            \A k \in 1..Len(nb) : ColorOk(nb, k)}

(***************************************************************************)
(* The flight step: collision, snap, match check                           *)
(***************************************************************************)
\* where the ball can be when a flight step ends: a lattice of half-radius
\* columns and half-row lines over the scan window, inside the side walls
BallPoints ==
    [x : {BUBBLE_RADIUS + k * BUBBLE_RADIUS :
             k \in 0..(canvasWidth \div BUBBLE_RADIUS - 2)},
     y : {j * (ROW_HEIGHT \div 2) : j \in 0..(2 * Min(ScanRows, GRID_ROWS + 10) + 1)}]

dist2(p, q) == (p.x - q.x) * (p.x - q.x) + (p.y - q.y) * (p.y - q.y)

gridPos(b) == getBubblePos(b.row, b.col, canvasWidth)

\* the collision test of the sub-step loop at ball position p
collisionAt(p, bs) ==
    \/ p.y < BUBBLE_RADIUS
    \/ \E i \in 1..Len(bs) :
          /\ Settled(bs[i])
          /\ dist2(p, gridPos(bs[i])) < ((BUBBLE_RADIUS * 18) \div 10) * ((BUBBLE_RADIUS * 18) \div 10)

\* the cells of the snap scan window, in loop order
ScanCells == cellsFrom(0, 0, Min(ScanRows, GRID_ROWS + 10))

\* the snap loop from its i-th cell on; best is [dist2, row, col, x, y] with
\* dist2 = -1 for bestDist = Infinity
RECURSIVE snapLoop(_, _, _, _)
snapLoop(i, p, bs, best) ==
    IF i > Len(ScanCells) THEN best
    ELSE LET cell == ScanCells[i]
             pos == getBubblePos(cell.row, cell.col, canvasWidth)
             occupied == \E k \in 1..Len(bs) :
                            Settled(bs[k]) /\ bs[k].row = cell.row /\ bs[k].col = cell.col
             dist == dist2(p, pos)
         IN  IF occupied THEN snapLoop(i + 1, p, bs, best)
             ELSE IF best.dist2 = -1 \/ dist < best.dist2
             THEN snapLoop(i + 1, p, bs, [dist2 |-> dist, row |-> cell.row,
                                          col |-> cell.col, x |-> pos.x, y |-> pos.y])
             ELSE snapLoop(i + 1, p, bs, best)

\* let bestDist=Infinity, bestRow=0, bestCol=0, bestX=0, bestY=0; then the loop
snap(p, bs) ==
    LET best == snapLoop(1, p, bs, [dist2 |-> -1, row |-> 0, col |-> 0, x |-> 0, y |-> 0])
    IN  [row |-> best.row, col |-> best.col, x |-> best.x, y |-> best.y]

NoCell == [row |-> 0, col |-> 0, x |-> 0, y |-> 0]

\* how a flight step can end: the ball flies on, leaves through the bottom
\* edge, or collides at a point and snaps to a cell
flightOutcomes(bs) ==
    {[kind |-> "fly", cell |-> NoCell], [kind |-> "exit", cell |-> NoCell]}
    \cup {[kind |-> "hit", cell |-> snap(p, bs)] :
              p \in {q \in BallPoints : collisionAt(q, bs)}}

\* a flight step that treats the bottom exit as a collision
collidedOrExited(o) == o.kind \in {"hit", "exit"}

\* if (collision) { ... } after the sub-step loop
collided(o) == o.kind = "hit"

\* the floating-bubble physics loop and the filter that follows it
physicsLoop(bs, t) ==
    LET moved == [i \in 1..Len(bs) |->
                    IF bs[i].isFloating THEN [bs[i] EXCEPT !.fall = @ + 1] ELSE bs[i]]
        Keep(b) == IF b.active
                   THEN IF b.isFloating THEN b.fall < FallFrames
                        ELSE gridY(b) < (canvasHeight + 100) * Unit
                   ELSE IF b.popTime # -1 THEN t - b.popTime < POP_DURATION
                   ELSE FALSE
    IN  SelectSeq(moved, Keep)

\* the hand-tracking block: hand is "none" (no hand, or fingers apart),
\* "anchor" (pinching within 30 px of the anchor) or "pulled" (pinching
\* further out); a pinching hand is within reach of the ball
handLogic(hand, t) ==
    LET same == [isPinching |-> isPinching, isFlying |-> isFlying,
                 ballPos |-> ballPos, flightStartTime |-> flightStartTime]
    IN  IF isQuizActiveRef \/ gameOver \/ isDragging THEN same
        ELSE IF hand # "none" /\ ~isFlying
        THEN [same EXCEPT !.isPinching = TRUE,
                          !.ballPos = hand]
        ELSE IF isPinching /\ hand = "none"
        THEN IF ballPos = "pulled"
             THEN [isPinching |-> FALSE, isFlying |-> TRUE, ballPos |-> "air",
                   flightStartTime |-> t]
             ELSE [same EXCEPT !.isPinching = FALSE, !.ballPos = "anchor"]
        ELSE IF ~isFlying /\ ~isPinching THEN [same EXCEPT !.ballPos = "anchor"]
        ELSE same

\* the pending bubbles as triggerQuiz stores them
pendingOf(found) == [i \in 1..Len(found) |-> [id |-> found[i].id, color |-> found[i].color]]

(***************************************************************************)
(* The game: state after registration (initGrid has run) and its handlers  *)
(***************************************************************************)
\* canvas heights in play: the loss line lies below row 0 or below row 1
CanvasHeights == {340, 370}

bubbleColors(bs) == {bs[i].color : i \in 1..Len(bs)}

settledColors(bs) == {bs[i].color : i \in {j \in 1..Len(bs) : Settled(bs[j])}}

(***************************************************************************)
(* handleQuizSubmit's answer comparison; a string is a sequence of         *)
(* one-character strings                                                   *)
(***************************************************************************)
\* s.trim()
trim(s) ==
    LET inked == {i \in 1..Len(s) : s[i] # " "}
    IN  IF inked = {} THEN <<>>
        ELSE SubSeq(s, CHOOSE i \in inked : \A j \in inked : i <= j,
                       CHOOSE i \in inked : \A j \in inked : i >= j)

\* s.toLowerCase(), on the letters the model draws
toLowerCase(s) == [i \in 1..Len(s) |-> IF s[i] = "A" THEN "a" ELSE s[i]]

IsPunctuation(c) == c \in {".", ",", "!"}

IsKept(c) == ~IsPunctuation(c)

\* s.replace(/[.,!]/g, '')
stripPunctuation(s) == SelectSeq(s, IsKept)

\* const normalize = (s) => s.trim().toLowerCase().replace(/[.,!]/g, '')
normalize(s) == stripPunctuation(toLowerCase(trim(s)))

\* const isCorrect = normalize(quizAnswer) === normalize(quizData.answer)
isCorrectAnswer(quizAnswer, answer) == normalize(quizAnswer) = normalize(answer)

\* answerCall while the comparison is not under study
AnswerIdle == [quizAnswer |-> <<>>, answer |-> <<>>, applied |-> FALSE,
               isCorrect |-> FALSE]

(***************************************************************************)
(* generateQuizQuestion                                                    *)
(***************************************************************************)
\* JavaScript values a JSON field can hold: undefined (absent), null, a
\* string, a number
JsUndefined == [kind |-> "undefined", s |-> "", n |-> 0]
JsNull == [kind |-> "null", s |-> "", n |-> 0]
JsString(str) == [kind |-> "string", s |-> str, n |-> 0]
JsNumber(num) == [kind |-> "number", s |-> "", n |-> num]

\* JavaScript truthiness, as `&&`, `||` and `if` read a value
truthy(v) ==
    CASE v.kind = "undefined" -> FALSE
      [] v.kind = "null" -> FALSE
      [] v.kind = "string" -> v.s # ""
      [] v.kind = "number" -> v.n # 0

\* a || b
JsOr(a, b) == IF truthy(a) THEN a ELSE b

\* const fallbackQuestion: QuizQuestion = { ... answer: "Apple" ... }
fallbackQuestion ==
    [question |-> JsString("The API could not be reached. Spell 'Apple'."),
     type |-> JsString("missing-char"),
     answer |-> JsString("Apple"),
     explanation |-> JsString("Network error occurred.")]

\* what JSON.parse returns: null, an array, or an object with some fields
JsonNull == [kind |-> "null", question |-> JsUndefined, answer |-> JsUndefined,
             type |-> JsUndefined, explanation |-> JsUndefined]
JsonArray == [kind |-> "array", question |-> JsUndefined, answer |-> JsUndefined,
              type |-> JsUndefined, explanation |-> JsUndefined]
JsonObject(q, a, t, e) ==
    [kind |-> "object", question |-> q, answer |-> a, type |-> t, explanation |-> e]

\* response.text: undefined, "", a text that is not JSON, or a JSON text
TextUndefined == [kind |-> "undefined", json |-> JsonNull]
TextEmpty == [kind |-> "empty", json |-> JsonNull]
TextInvalid == [kind |-> "invalid", json |-> JsonNull]
TextJson(json) == [kind |-> "json", json |-> json]

\* let text = response.text || "{}"; JSON.parse(text) throws on it
parseThrows(text) == text.kind = "invalid"

\* let text = response.text || "{}"; const json = JSON.parse(text)
parse(text) ==
    IF text.kind \in {"undefined", "empty"}
    THEN JsonObject(JsUndefined, JsUndefined, JsUndefined, JsUndefined)
    ELSE text.json

\* a validation that looks at the question only
quizValidQuestionOnly(json) == truthy(json.question)

\* if (json.question && json.answer)
quizValid(json) == truthy(json.question) /\ truthy(json.answer)

\* a promise's outcome
Resolved(q) == [settled |-> "resolved", quiz |-> q]

\* generateQuizQuestion: ai is whether the client exists, api is what
\* ai.models.generateContent did (the SDK throws Error objects), text is
\* response.text
generateQuizQuestion(ai, api, text) ==
    IF ~ai THEN Resolved(fallbackQuestion)
    ELSE IF api.kind = "throws" THEN Resolved(fallbackQuestion)
    ELSE IF parseThrows(text) THEN Resolved(fallbackQuestion)
    ELSE LET json == parse(text)
         IN  IF json.kind = "null" THEN Resolved(fallbackQuestion)
             ELSE IF quizValid(json)
             THEN Resolved([question |-> json.question,
                            type |-> JsOr(json.type, JsString("fill-blank")),
                            answer |-> json.answer,
                            explanation |-> JsOr(json.explanation, JsString("Correct!"))])
             ELSE Resolved(fallbackQuestion)

\* quizCall while generateQuizQuestion is not under study
QuizIdle == [ai |-> FALSE, api |-> [kind |-> "returns", message |-> ""],
             text |-> TextUndefined, applied |-> FALSE,
             res |-> Resolved(fallbackQuestion)]

\* pick while getNextBubbleColor is not under study
PickIdle == [board |-> <<>>, forbidden |-> {}, d |-> "Easy", applied |-> FALSE,
             color |-> "red"]

\* the state after registration with a difficulty of ds
InitWith(ds) ==
    /\ difficulty \in ds
    /\ canvasHeight \in CanvasHeights
    /\ now = 1 /\ lastDropTimeRef = 1 /\ pendingWait = 0
    /\ bubbles \in initGrid(difficulty, 1)
    /\ nextId = Len(bubbles) + 1
    /\ currentAmmo \in (IF bubbles = <<>> THEN {"red"} ELSE bubbleColors(bubbles))
    /\ nextAmmo \in (IF bubbles = <<>> THEN {"blue"} ELSE bubbleColors(bubbles))
    /\ scoreRef = 0 /\ moves = 0
    /\ isFlying = FALSE /\ isPinching = FALSE /\ isDragging = FALSE
    /\ ballPos = "anchor" /\ flightStartTime = 0
    /\ isQuizActiveRef = FALSE /\ pendingMatches = <<>>
    /\ quizLoading = FALSE /\ quizData = "null" /\ quizResult = "null"
    /\ loadsPending = 0 /\ timers = <<>>
    /\ gameOver = FALSE /\ gameWon = FALSE /\ hasWonRef = FALSE
    /\ isPaused = FALSE /\ showLeaderboard = FALSE
    /\ matches = [start |-> 0, found |-> <<>>, expired |-> FALSE,
                 exited |-> FALSE]
    /\ floating = <<>>
    /\ nbr = [a |-> [row |-> 0, col |-> 0], b |-> [row |-> 0, col |-> 0],
              applied |-> FALSE, ab |-> FALSE, ba |-> FALSE]
    /\ pick = PickIdle
    /\ quizCall = QuizIdle
    /\ answerCall = AnswerIdle

Init == InitWith(Difficulties)

dropInterval == DIFFICULTY_CONFIG[difficulty].dropInterval

\* the long frame gaps taken so far
longGaps == (now - 1) \div (dropInterval + 1)

movesLeft == moves + longGaps < MaxMoves

\* where the player can hold the ball while the game has moves left: within
\* 30 px of the anchor, or pulled further out
Holds == IF movesLeft THEN {"anchor", "pulled"} ELSE {}

\* the gaps between two frames the model distinguishes: a short one, counted
\* as no time, and one just longer than the drop interval
FrameGaps == {0, dropInterval + 1}

\* the mutant of autoDropDue that ignores the pending match
autoDropDueUngated(t) ==
    /\ ~isPinching /\ ~isFlying
    /\ t - lastDropTimeRef > dropInterval

\* the guard of the auto drop (gameWon is the false of the render the frame
\* callback was created in)
\* the mutant of autoDropDue that does not look at the pinch
autoDropDueWhileAiming(t) ==
    /\ ~isQuizActiveRef /\ ~isFlying
    /\ t - lastDropTimeRef > dropInterval

autoDropDue(t) ==
    /\ ~isQuizActiveRef /\ ~isPinching /\ ~isFlying
    /\ t - lastDropTimeRef > dropInterval

\* the mutant of flightExpired that never gives a flight up
flightNeverExpires(t, start) == FALSE

\* the flight watchdog: now - flightStartTime.current > 5000
flightExpired(t, start) == t - start > FLIGHT_WATCHDOG

\* onResults past its early return, at clock t = now + dt
FrameBody(t, dt) ==
    LET dropDue == autoDropDue(t)
        shifted == shiftDown(bubbles)
        lost == dropDue /\ rowLoses(shifted)
    IN
    \E newRow \in (IF dropDue /\ ~lost
                   THEN newRows(shifted, difficulty, nextId) ELSE {<<>>}) :
    \E hand \in (IF isQuizActiveRef \/ isDragging \/ isFlying
                 THEN {"none"} ELSE {"none"} \cup Holds) :
    LET bs1 == IF dropDue THEN shifted \o newRow ELSE bubbles
        drop1 == IF dropDue /\ ~lost THEN t ELSE lastDropTimeRef
        id1 == nextId + Len(newRow)
        H == handLogic(hand, t)
        bs2 == physicsLoop(bs1, t)
        flightRuns == H.isFlying /\ ~isQuizActiveRef
        watchdog == flightExpired(t, H.flightStartTime)
    IN
    \E o \in (IF flightRuns /\ ~watchdog
              THEN flightOutcomes(bs2) ELSE {[kind |-> "none", cell |-> NoCell]}) :
    LET hit == collided(o)
        newB == NewBubble(id1, o.cell.row, o.cell.col, currentAmmo)
        bs3 == Append(bs2, newB)
        found == checkMatchesArray(bs3, newB)
        quiz == hit /\ Len(found) >= MIN_CLUSTER
    IN
    \E ammo \in (IF hit THEN settledColors(bs3) ELSE {nextAmmo}) :
        /\ bubbles' = IF hit THEN bs3 ELSE bs2
        /\ nextId' = IF hit THEN id1 + 1 ELSE id1
        /\ lastDropTimeRef' = drop1
        /\ pendingWait' = IF drop1 # lastDropTimeRef THEN 0
                          ELSE IF isQuizActiveRef THEN pendingWait + dt
                          ELSE pendingWait
        /\ isPinching' = H.isPinching
        /\ moves' = IF H.isFlying /\ ~isFlying THEN moves + 1 ELSE moves
        /\ flightStartTime' = H.flightStartTime
        /\ isFlying' = IF flightRuns THEN ~watchdog /\ o.kind = "fly" ELSE H.isFlying
        /\ ballPos' = IF flightRuns /\ (watchdog \/ o.kind # "fly") THEN "anchor"
                      ELSE H.ballPos
        /\ gameOver' = (lost \/ (hit /\ o.cell.y > lossLine))
        /\ matches' = IF hit THEN [start |-> newB.id,
                                   found |-> [i \in 1..Len(found) |-> found[i].id],
                                   expired |-> FALSE,
                                   exited |-> o.kind = "exit"]
                      ELSE [start |-> 0, found |-> <<>>,
                            expired |-> flightRuns /\ watchdog,
                            exited |-> flightRuns /\ ~watchdog /\ o.kind = "exit"]
        /\ currentAmmo' = IF hit THEN nextAmmo ELSE currentAmmo
        /\ nextAmmo' = ammo
        /\ isQuizActiveRef' = (isQuizActiveRef \/ quiz)
        /\ pendingMatches' = IF quiz THEN pendingOf(found) ELSE pendingMatches
        /\ quizLoading' = (quizLoading \/ quiz)
        /\ quizData' = IF quiz THEN "null" ELSE quizData
        /\ quizResult' = IF quiz THEN "null" ELSE quizResult
        /\ loadsPending' = IF quiz THEN loadsPending + 1 ELSE loadsPending
        /\ floating' = <<>>
        /\ UNCHANGED <<scoreRef, canvasHeight, difficulty, isDragging, timers,
                       gameWon, hasWonRef, isPaused, nbr, pick, quizCall, showLeaderboard, answerCall>>

\* a projectile is in flight and the frames are being processed
flightRunning == isFlying /\ ~isPaused /\ ~gameOver

\* onResults called dt after the previous frame.  A scheduled 1200 ms timer
\* fires before the clock has moved on by a long gap; the clock always moves
\* on under a projectile in flight.
FrameAt(dt) ==
        /\ dt > 0 => (movesLeft \/ flightRunning)
        /\ dt > 0 => timers = <<>>
        /\ now' = now + dt
        /\ IF isPaused \/ gameOver
           THEN UNCHANGED <<bubbles, nextId, moves, scoreRef, lastDropTimeRef, canvasHeight,
                            difficulty, isFlying, isPinching, isDragging, ballPos,
                            flightStartTime, isQuizActiveRef, pendingMatches,
                            quizLoading, quizData, quizResult, loadsPending, timers,
                            currentAmmo, nextAmmo, gameOver, gameWon, hasWonRef,
                            isPaused, matches, floating, pendingWait, nbr, pick, quizCall, showLeaderboard, answerCall>>
           ELSE FrameBody(now + dt, dt)

\* one camera frame: onResults
Frame == \E dt \in FrameGaps : FrameAt(dt)

\* handleTouchStart with the finger within 120 px of the ball or the anchor:
\* at "anchor" (within 30 px of the anchor) or "pulled" (further out)
handleTouchStart ==
    /\ ~(isQuizActiveRef \/ gameOver \/ isFlying)
    /\ \E touch \in Holds : ballPos' = touch
    /\ isDragging' = TRUE
    /\ isPinching' = TRUE
    /\ UNCHANGED <<bubbles, nextId, moves, scoreRef, now, lastDropTimeRef, canvasHeight,
                   difficulty, isFlying, flightStartTime, isQuizActiveRef,
                   pendingMatches, quizLoading, quizData, quizResult, loadsPending,
                   timers, currentAmmo, nextAmmo, gameOver, gameWon, hasWonRef,
                   isPaused, matches, floating, pendingWait, nbr, pick, quizCall, showLeaderboard, answerCall>>

handleTouchMove ==
    /\ ~(~isDragging \/ isFlying)
    /\ \E touch \in Holds : ballPos' = touch
    /\ UNCHANGED <<bubbles, nextId, moves, scoreRef, now, lastDropTimeRef, canvasHeight,
                   difficulty, isFlying, isPinching, isDragging, flightStartTime,
                   isQuizActiveRef, pendingMatches, quizLoading, quizData,
                   quizResult, loadsPending, timers, currentAmmo, nextAmmo,
                   gameOver, gameWon, hasWonRef, isPaused, matches, floating,
                   pendingWait, nbr, pick, quizCall, showLeaderboard, answerCall>>

handleTouchEnd ==
    /\ isDragging
    /\ isDragging' = FALSE
    /\ isPinching' = FALSE
    /\ isFlying' = IF ballPos = "pulled" THEN TRUE ELSE isFlying
    /\ moves' = IF ballPos = "pulled" THEN moves + 1 ELSE moves
    /\ flightStartTime' = IF ballPos = "pulled" THEN now ELSE flightStartTime
    /\ ballPos' = IF ballPos = "pulled" THEN "air" ELSE "anchor"
    /\ UNCHANGED <<bubbles, nextId, scoreRef, now, lastDropTimeRef, canvasHeight,
                   difficulty, isQuizActiveRef, pendingMatches, quizLoading,
                   quizData, quizResult, loadsPending, timers, currentAmmo,
                   nextAmmo, gameOver, gameWon, hasWonRef, isPaused, matches,
                   floating, pendingWait, nbr, pick, quizCall, showLeaderboard, answerCall>>

\* the question of a triggerQuiz call arrives: the 600 ms timer of a custom
\* question fires, or generateQuizQuestion resolves (with the model's
\* question or its fallback question; it never rejects)
QuizLoaded ==
    /\ loadsPending > 0
    /\ loadsPending' = loadsPending - 1
    /\ quizData' = "question"
    /\ quizLoading' = FALSE
    /\ UNCHANGED <<bubbles, nextId, moves, scoreRef, now, lastDropTimeRef, canvasHeight,
                   difficulty, isFlying, isPinching, isDragging, ballPos,
                   flightStartTime, isQuizActiveRef, pendingMatches, quizResult,
                   timers, currentAmmo, nextAmmo, gameOver, gameWon, hasWonRef,
                   isPaused, matches, floating, pendingWait, nbr, pick, quizCall, showLeaderboard, answerCall>>

\* the answer form is on screen: the overlay shows a loaded question and no
\* result yet
FormShown == ~quizLoading /\ quizData # "null" /\ quizResult = "null"

\* handleQuizSubmit with an answer that matches (isCorrect) or does not; a
\* correct answer schedules completeMatch(true) with the pendingMatches of
\* this render
handleQuizSubmit ==
    /\ FormShown
    /\ \E isCorrect \in BOOLEAN :
          /\ quizResult' = IF isCorrect THEN "correct" ELSE "incorrect"
          /\ timers' = IF isCorrect THEN Append(timers, pendingMatches) ELSE timers
    /\ UNCHANGED <<bubbles, nextId, moves, scoreRef, now, lastDropTimeRef, canvasHeight,
                   difficulty, isFlying, isPinching, isDragging, ballPos,
                   flightStartTime, isQuizActiveRef, pendingMatches, quizLoading,
                   quizData, loadsPending, currentAmmo, nextAmmo, gameOver,
                   gameWon, hasWonRef, isPaused, matches, floating, pendingWait,
                   nbr, pick, quizCall, showLeaderboard, answerCall>>

\* pendingMatches.forEach(b => { b.active = false; b.popTime = now })
popMatches(bs, pm, t) ==
    LET pmIds == {pm[i].id : i \in 1..Len(pm)}
    IN  [i \in 1..Len(bs) |->
            IF bs[i].id \in pmIds THEN [bs[i] EXCEPT !.active = FALSE, !.popTime = t]
            ELSE bs[i]]

\* floating.forEach(b => { b.isFloating = true; ... })
markFloating(bs, fl) ==
    [i \in 1..Len(bs) |->
        IF bs[i].id \in Ids(fl) THEN [bs[i] EXCEPT !.isFloating = TRUE] ELSE bs[i]]

\* the mutant of basePoints that always scores the first colour
basePointsRed(pm) == COLOR_CONFIG["red"].points

\* COLOR_CONFIG[pendingMatches[0]?.color || 'red'].points
basePoints(pm) == COLOR_CONFIG[IF pm = <<>> THEN "red" ELSE pm[1].color].points

winScore(d) == Min(MaxWinScore, DIFFICULTY_CONFIG[d].winScore)

\* the mutant of winCheck that lets every difficulty win
winCheckAnyDifficulty(awarded, score1) ==
    awarded /\ ~hasWonRef /\ score1 >= winScore(difficulty)

\* awarded, and difficulty !== 'Infinity' && !hasWonRef.current &&
\* scoreRef.current >= config.winScore
winCheck(awarded, score1) ==
    /\ awarded /\ difficulty # "Infinity" /\ ~hasWonRef
    /\ score1 >= winScore(difficulty)

\* the mutant of boardCleared that counts floating bubbles as still on the board
boardClearedNoneActive(bs) == ~ \E i \in 1..Len(bs) : bs[i].active

\* bubbles.current.filter(b => b.active && !b.isFloating).length === 0
boardCleared(bs) == ~ \E i \in 1..Len(bs) : Settled(bs[i])

\* completeMatch(awarded) run by a closure whose pendingMatches is pm
completeMatch(awarded, pm) ==
    LET popped == IF awarded THEN popMatches(bubbles, pm, now) ELSE bubbles
        fl == IF awarded THEN findFloatingBubbles(popped) ELSE <<>>
        marked == markFloating(popped, fl)
        points == Len(pm) * basePoints(pm) + Len(fl) * basePoints(pm) * 2
        score1 == IF awarded THEN scoreRef + points + FLAT_BONUS ELSE scoreRef
        wins == winCheck(awarded, score1)
        reseed == boardCleared(marked)
    IN
    \E seed \in (IF reseed THEN initGrid(difficulty, nextId) ELSE {<<>>}) :
    \E ammo \in (IF reseed /\ seed # <<>>
                 THEN bubbleColors(seed) \X bubbleColors(seed)
                 ELSE {<<currentAmmo, nextAmmo>>}) :
        /\ bubbles' = IF reseed THEN seed ELSE marked
        /\ nextId' = nextId + Len(seed)
        /\ scoreRef' = score1
        /\ floating' = IF awarded THEN [i \in 1..Len(fl) |-> fl[i].id] ELSE floating
        /\ hasWonRef' = IF reseed THEN FALSE ELSE (hasWonRef \/ wins)
        /\ gameWon' = IF reseed THEN FALSE ELSE (gameWon \/ wins)
        /\ isPaused' = (isPaused \/ wins)
        /\ gameOver' = IF reseed THEN FALSE ELSE gameOver
        /\ lastDropTimeRef' = IF reseed THEN now ELSE lastDropTimeRef
        /\ pendingWait' = IF reseed THEN 0 ELSE pendingWait
        /\ currentAmmo' = ammo[1]
        /\ nextAmmo' = ammo[2]
        /\ quizData' = "null"
        /\ isQuizActiveRef' = FALSE
        /\ pendingMatches' = <<>>
        /\ UNCHANGED <<now, canvasHeight, difficulty, isFlying, isPinching,
                       isDragging, ballPos, flightStartTime, quizLoading,
                       quizResult, loadsPending, matches, nbr, pick, quizCall, showLeaderboard, answerCall>>

\* the mutant of SkipShown that takes the button away with the answer form
SkipShownUntilAnswered ==
    (quizLoading \/ quizData # "null") /\ ~quizLoading /\ quizResult = "null"

\* the Skip Question button is on screen: the overlay is up and not loading
SkipShown == (quizLoading \/ quizData # "null") /\ ~quizLoading

\* the Skip Question button
skipQuiz ==
    /\ SkipShown
    /\ completeMatch(TRUE, pendingMatches)
    /\ UNCHANGED <<timers, moves>>

\* the 1200 ms timer of a correct answer fires: completeMatch(true) of the
\* render that scheduled it
CompleteMatchTimer ==
    /\ timers # <<>>
    /\ completeMatch(TRUE, Head(timers))
    /\ timers' = Tail(timers)
    /\ UNCHANGED moves

\* the mutant of completeMatchFalse that ignores the awarded argument
completeMatchFalseAwards ==
    /\ isQuizActiveRef /\ movesLeft
    /\ completeMatch(TRUE, pendingMatches)
    /\ moves' = moves + 1
    /\ UNCHANGED timers

\* completeMatch(false), which no handler of the component calls
completeMatchFalse ==
    /\ isQuizActiveRef /\ movesLeft
    /\ completeMatch(FALSE, pendingMatches)
    /\ moves' = moves + 1
    /\ UNCHANGED timers

\* the Keep Playing button of the victory overlay
KeepPlaying ==
    /\ gameWon /\ ~showLeaderboard
    /\ gameWon' = FALSE
    /\ isPaused' = FALSE
    /\ UNCHANGED <<bubbles, nextId, moves, scoreRef, now, lastDropTimeRef, canvasHeight,
                   difficulty, isFlying, isPinching, isDragging, ballPos,
                   flightStartTime, isQuizActiveRef, pendingMatches, quizLoading,
                   quizData, quizResult, loadsPending, timers, currentAmmo,
                   nextAmmo, gameOver, hasWonRef, matches, floating, pendingWait,
                   nbr, pick, quizCall, showLeaderboard, answerCall>>

\* the quiz overlay (z-90) is up and covers every other control
QuizOverlay == quizLoading \/ quizData # "null"

\* what a call of initGrid assigns, the score left alone
initGridCall ==
    \E seed \in initGrid(difficulty, nextId) :
    \E ammo \in (IF seed # <<>> THEN bubbleColors(seed) \X bubbleColors(seed)
                 ELSE {<<currentAmmo, nextAmmo>>}) :
        /\ bubbles' = seed
        /\ nextId' = nextId + Len(seed)
        /\ lastDropTimeRef' = now
        /\ pendingWait' = 0
        /\ gameOver' = FALSE /\ gameWon' = FALSE /\ hasWonRef' = FALSE
        /\ currentAmmo' = ammo[1]
        /\ nextAmmo' = ammo[2]

\* the Save buttons (HUD, victory overlay): the entry is stored, the
\* leaderboard opens and the game pauses
saveToLeaderboard ==
    /\ ~showLeaderboard /\ ~QuizOverlay
    /\ gameWon \/ ~isPaused
    /\ movesLeft
    /\ showLeaderboard' = TRUE
    /\ isPaused' = TRUE
    /\ moves' = moves + 1
    /\ UNCHANGED <<bubbles, nextId, scoreRef, now, lastDropTimeRef, canvasHeight,
                   difficulty, isFlying, isPinching, isDragging, ballPos,
                   flightStartTime, isQuizActiveRef, pendingMatches, quizLoading,
                   quizData, quizResult, loadsPending, timers, currentAmmo,
                   nextAmmo, gameOver, gameWon, hasWonRef, matches, floating,
                   pendingWait, nbr, pick, quizCall, answerCall>>

\* a restart that leaves the score where it is
RestartKeepsScore ==
    /\ gameWon /\ ~showLeaderboard /\ ~QuizOverlay
    /\ initGridCall
    /\ UNCHANGED <<moves, scoreRef, now, canvasHeight, difficulty, isFlying,
                   isPinching, isDragging, ballPos, flightStartTime,
                   isQuizActiveRef, pendingMatches, quizLoading, quizData,
                   quizResult, loadsPending, timers, isPaused, matches,
                   floating, nbr, pick, quizCall, showLeaderboard, answerCall>>

\* the Restart button of the victory overlay
Restart ==
    /\ gameWon /\ ~showLeaderboard /\ ~QuizOverlay
    /\ initGridCall
    /\ scoreRef' = 0
    /\ UNCHANGED <<moves, now, canvasHeight, difficulty, isFlying,
                   isPinching, isDragging, ballPos, flightStartTime,
                   isQuizActiveRef, pendingMatches, quizLoading, quizData,
                   quizResult, loadsPending, timers, isPaused, matches,
                   floating, nbr, pick, quizCall, showLeaderboard, answerCall>>

\* the close button of the leaderboard: after a lost round it starts a new one
closeLeaderboard ==
    /\ showLeaderboard /\ ~QuizOverlay
    /\ showLeaderboard' = FALSE
    /\ isPaused' = FALSE
    /\ IF gameOver
       THEN initGridCall /\ scoreRef' = 0
       ELSE UNCHANGED <<bubbles, nextId, lastDropTimeRef, pendingWait, gameOver,
                        gameWon, hasWonRef, currentAmmo, nextAmmo, scoreRef>>
    /\ UNCHANGED <<moves, now, canvasHeight, difficulty, isFlying,
                   isPinching, isDragging, ballPos, flightStartTime,
                   isQuizActiveRef, pendingMatches, quizLoading, quizData,
                   quizResult, loadsPending, timers, matches,
                   floating, nbr, pick, quizCall, answerCall>>

Next ==
    \/ Frame
    \/ handleTouchStart
    \/ handleTouchMove
    \/ handleTouchEnd
    \/ QuizLoaded
    \/ handleQuizSubmit
    \/ skipQuiz
    \/ CompleteMatchTimer
    \/ KeepPlaying

Spec == Init /\ [][Next]_vars

\* the component's functions called directly, completeMatch(false) included
NextApi == Next \/ completeMatchFalse

SpecApi == Init /\ [][NextApi]_vars

\* the game with the quiz's asynchronous steps eventually taken: a pending
\* question load settles and a scheduled timer fires
SpecLive == Spec /\ WF_vars(QuizLoaded) /\ WF_vars(CompleteMatchTimer)

\* a bubble is falling and the frames are being processed
fallingRuns ==
    /\ ~isPaused /\ ~gameOver
    /\ \E i \in 1..Len(bubbles) : bubbles[i].active /\ bubbles[i].isFloating

\* a processed frame with a bubble falling: it always moves that bubble
FallingFrame == fallingRuns /\ FrameAt(0)

\* weak fairness of FallingFrame, written with its enabling condition
FallingFrameFair == []<>(~fallingRuns) \/ []<><<FallingFrame>>_vars

\* the game with frames that keep running under a falling bubble, and
\* scheduled timers that fire
SpecFalling == Spec /\ WF_vars(CompleteMatchTimer) /\ FallingFrameFair

\* the game with its leaderboard and restart buttons
NextRound == Next \/ saveToLeaderboard \/ Restart \/ closeLeaderboard

SpecRound == Init /\ [][NextRound]_vars

\* the game on a difficulty with a win score or on the endless one
SpecModes == InitWith({"Easy", "Infinity"}) /\ [][Next]_vars

\* a frame that arrives a long gap after the previous one
LongFrame == FrameAt(dropInterval + 1)

\* the enabling condition of LongFrame
LongFrameEnabled == (movesLeft \/ flightRunning) /\ timers = <<>>

\* weak fairness of LongFrame, the only action that moves the clock, written
\* with its enabling condition
LongFrameFair == []<>(~LongFrameEnabled) \/ []<><<now' > now>>_vars

\* the game with frames that keep running: the clock moves on, and a
\* scheduled timer fires
SpecFrames == Spec /\ WF_vars(CompleteMatchTimer) /\ LongFrameFair

(***************************************************************************)
(* isNeighbor as a pure function: SpecNbr draws two cells and applies it   *)
(* in both argument orders.                                                *)
(***************************************************************************)
NbrCells == [row : 0..NbrMax, col : 0..NbrMax]

GameIdle ==
    /\ bubbles = <<>> /\ nextId = 1 /\ moves = 0 /\ scoreRef = 0 /\ now = 0
    /\ lastDropTimeRef = 0 /\ canvasHeight = 0 /\ difficulty = "Easy"
    /\ isFlying = FALSE /\ isPinching = FALSE /\ isDragging = FALSE
    /\ ballPos = "anchor" /\ flightStartTime = 0
    /\ isQuizActiveRef = FALSE /\ pendingMatches = <<>>
    /\ quizLoading = FALSE /\ quizData = "null" /\ quizResult = "null"
    /\ loadsPending = 0 /\ timers = <<>>
    /\ currentAmmo = "red" /\ nextAmmo = "blue"
    /\ gameOver = FALSE /\ gameWon = FALSE /\ hasWonRef = FALSE
    /\ isPaused = FALSE /\ showLeaderboard = FALSE
    /\ matches = [start |-> 0, found |-> <<>>, expired |-> FALSE,
                 exited |-> FALSE]
    /\ floating = <<>>
    /\ pendingWait = 0

InitNbr ==
    /\ GameIdle
    /\ pick = PickIdle
    /\ quizCall = QuizIdle
    /\ answerCall = AnswerIdle
    /\ \E a \in NbrCells, b \in NbrCells :
          nbr = [a |-> a, b |-> b, applied |-> FALSE, ab |-> FALSE, ba |-> FALSE]

ApplyIsNeighbor ==
    /\ ~nbr.applied
    /\ nbr' = [nbr EXCEPT !.applied = TRUE,
                          !.ab = isNeighbor(nbr.a, nbr.b),
                          !.ba = isNeighbor(nbr.b, nbr.a)]
    /\ UNCHANGED <<gameVars, pick, quizCall, answerCall>>

NextNbr == ApplyIsNeighbor

SpecNbr == InitNbr /\ [][NextNbr]_vars

(***************************************************************************)
(* getNextBubbleColor as a pure function: SpecColor draws a board, a       *)
(* forbidden list and a difficulty, and applies it.                        *)
(***************************************************************************)
\* the bubbles a drawn board is made of: any palette colour, active or popped
PickBubbles(k) ==
    {[NewBubble(k, 0, k - 1, c) EXCEPT !.active = a] :
        c \in COLOR_KEYS, a \in BOOLEAN}

\* the boards drawn: up to PickLen bubbles, the empty board included
PickBoards ==
    UNION {{b \in [1..n -> UNION {PickBubbles(k) : k \in 1..n}] :
                \A k \in 1..n : b[k] \in PickBubbles(k)} : n \in 0..PickLen}

InitColor ==
    /\ GameIdle
    /\ nbr = [a |-> [row |-> 0, col |-> 0], b |-> [row |-> 0, col |-> 0],
              applied |-> FALSE, ab |-> FALSE, ba |-> FALSE]
    /\ \E board \in PickBoards, forbidden \in SUBSET COLOR_KEYS,
          d \in DOMAIN DIFFICULTY_CONFIG :
          pick = [board |-> board, forbidden |-> forbidden, d |-> d,
                  applied |-> FALSE, color |-> "red"]
    /\ quizCall = QuizIdle
    /\ answerCall = AnswerIdle

ApplyGetNextBubbleColor ==
    /\ ~pick.applied
    /\ \E c \in getNextBubbleColor(pick.board, pick.forbidden, pick.d) :
          pick' = [pick EXCEPT !.applied = TRUE, !.color = c]
    /\ UNCHANGED <<gameVars, nbr, quizCall, answerCall>>

NextColor == ApplyGetNextBubbleColor

SpecColor == InitColor /\ [][NextColor]_vars

\* C7: adjacency symmetry: isNeighbor(a, b) equals isNeighbor(b, a) for
\* every pair of grid cells, whatever their rows, columns and row parities.
C7_AdjacencySymmetry ==
    nbr.applied => nbr.ab = nbr.ba

\* C7 witness: isNeighbor was applied to a pair in adjacent rows, the first
\* in an odd row and the second in an even row, and found them neighbours.
C7_Witness ==
    /\ nbr.applied /\ nbr.ab /\ nbr.ba
    /\ nbr.a.row % 2 = 1 /\ nbr.b.row = nbr.a.row + 1

\* the adjacency rule with the parity taken from the cell of lower row index
RuleLowerIndex(a, b) ==
    LET dr == b.row - a.row
        dc == b.col - a.col
        lower == IF a.row <= b.row THEN a ELSE b
    IN  IF Abs(dr) > 1 THEN FALSE
        ELSE IF dr = 0 THEN Abs(dc) = 1
        ELSE IF lower.row % 2 # 0 THEN dc \in {0, 1}
        ELSE dc \in {-1, 0}

\* the adjacency rule with the parity taken from the cell lower on the screen
RuleLowerOnScreen(a, b) ==
    LET dr == b.row - a.row
        dc == b.col - a.col
        lower == IF a.row >= b.row THEN a ELSE b
    IN  IF Abs(dr) > 1 THEN FALSE
        ELSE IF dr = 0 THEN Abs(dc) = 1
        ELSE IF lower.row % 2 # 0 THEN dc \in {0, 1}
        ELSE dc \in {-1, 0}

\* the adjacency rule with the parity taken from the cell the deltas are
\* measured from (the first argument)
RuleFirstCell(a, b) ==
    LET dr == b.row - a.row
        dc == b.col - a.col
    IN  IF Abs(dr) > 1 THEN FALSE
        ELSE IF dr = 0 THEN Abs(dc) = 1
        ELSE IF a.row % 2 # 0 THEN dc \in {0, 1}
        ELSE dc \in {-1, 0}

\* C8 as stated: with dr, dc the deltas from a to b, the parity that picks
\* {0,1} or {-1,0} is that of the lower-row cell.  Either reading of
\* "lower-row" (lower index, lower on screen) must agree with isNeighbor on
\* the pair in both argument orders.
C8_Original ==
    nbr.applied =>
        \/ /\ nbr.ab = RuleLowerIndex(nbr.a, nbr.b)
           /\ nbr.ba = RuleLowerIndex(nbr.b, nbr.a)
        \/ /\ nbr.ab = RuleLowerOnScreen(nbr.a, nbr.b)
           /\ nbr.ba = RuleLowerOnScreen(nbr.b, nbr.a)

\* C8 amended: isNeighbor(a, b), with dr = b.row - a.row and
\* dc = b.col - a.col, is false when |dr| > 1; for dr = 0 it holds iff
\* |dc| = 1; for dr = +1 or -1 it holds iff dc is in {0, 1} when a's row (the
\* cell the deltas are measured from) is odd and iff dc is in {-1, 0} when
\* a's row is even.
C8_AdjacencyRule ==
    nbr.applied =>
        /\ nbr.ab = RuleFirstCell(nbr.a, nbr.b)
        /\ nbr.ba = RuleFirstCell(nbr.b, nbr.a)

\* C8 witness: isNeighbor was applied from an even-row cell to a cell one row
\* up (dr = -1) whose column is one less, and found them neighbours.
C8_Witness ==
    /\ nbr.applied /\ nbr.ab
    /\ nbr.a.row % 2 = 0 /\ nbr.b.row = nbr.a.row - 1
    /\ nbr.b.col = nbr.a.col - 1

(***************************************************************************)
(* checkMatches and completeMatch on a given board: SpecScenario starts    *)
(* from a gap-free single-colour grid of rows 0-2 and columns 0-2 with a   *)
(* projectile in flight, settles the projectile in row 3 and resolves the  *)
(* match.                                                                  *)
(***************************************************************************)
\* canvas heights whose loss line lies below row 3
ScenarioHeights == {480, 720}

\* the gap-free grid of rows 0-2 and columns 0-2 in one colour, ids 1..9
ScenarioGrid(c) ==
    [k \in 1..9 |-> NewBubble(k, (k - 1) \div 3, (k - 1) % 3, c)]

InitScenario ==
    /\ difficulty = "Easy" /\ canvasHeight \in ScenarioHeights
    /\ now = 1 /\ lastDropTimeRef = 1 /\ pendingWait = 0
    /\ \E c \in COLOR_KEYS : bubbles = ScenarioGrid(c)
    /\ nextId = 10
    /\ currentAmmo \in COLOR_KEYS /\ nextAmmo \in COLOR_KEYS
    /\ scoreRef = 0 /\ moves = 1
    /\ isFlying = TRUE /\ isPinching = FALSE /\ isDragging = FALSE
    /\ ballPos = "air" /\ flightStartTime = 1
    /\ isQuizActiveRef = FALSE /\ pendingMatches = <<>>
    /\ quizLoading = FALSE /\ quizData = "null" /\ quizResult = "null"
    /\ loadsPending = 0 /\ timers = <<>>
    /\ gameOver = FALSE /\ gameWon = FALSE /\ hasWonRef = FALSE
    /\ isPaused = FALSE /\ showLeaderboard = FALSE
    /\ matches = [start |-> 0, found |-> <<>>, expired |-> FALSE,
                 exited |-> FALSE]
    /\ floating = <<>>
    /\ nbr = [a |-> [row |-> 0, col |-> 0], b |-> [row |-> 0, col |-> 0],
              applied |-> FALSE, ab |-> FALSE, ba |-> FALSE]
    /\ pick = PickIdle
    /\ quizCall = QuizIdle
    /\ answerCall = AnswerIdle

\* the end of a flight step whose collision snapped the projectile to a cell
\* of row 3: push, checkMatches (with triggerQuiz), loss test and ammo cycle
ScenarioSettle ==
    /\ isFlying /\ ~isQuizActiveRef /\ ~gameOver /\ ~isPaused
    /\ \E col \in 0..(colsInRow(3) - 1) :
        LET newB == NewBubble(nextId, 3, col, currentAmmo)
            bs3 == Append(bubbles, newB)
            found == checkMatchesArray(bs3, newB)
            quiz == Len(found) >= MIN_CLUSTER
        IN
        \E ammo \in settledColors(bs3) :
            /\ bubbles' = bs3
            /\ nextId' = nextId + 1
            /\ isFlying' = FALSE /\ ballPos' = "anchor"
            /\ gameOver' = (gridY(newB) > lossLine)
            /\ matches' = [start |-> newB.id,
                           found |-> [i \in 1..Len(found) |-> found[i].id],
                           expired |-> FALSE, exited |-> FALSE]
            /\ currentAmmo' = nextAmmo /\ nextAmmo' = ammo
            /\ isQuizActiveRef' = quiz
            /\ pendingMatches' = IF quiz THEN pendingOf(found) ELSE pendingMatches
            /\ quizLoading' = (quizLoading \/ quiz)
            /\ quizData' = IF quiz THEN "null" ELSE quizData
            /\ quizResult' = IF quiz THEN "null" ELSE quizResult
            /\ loadsPending' = IF quiz THEN loadsPending + 1 ELSE loadsPending
            /\ floating' = <<>>
            /\ UNCHANGED <<moves, scoreRef, now, lastDropTimeRef, pendingWait,
                           canvasHeight, difficulty, isPinching, isDragging,
                           flightStartTime, timers, gameWon, hasWonRef, isPaused,
                           nbr, pick, quizCall, showLeaderboard, answerCall>>

NextScenario ==
    \/ ScenarioSettle
    \/ QuizLoaded
    \/ handleQuizSubmit
    \/ skipQuiz
    \/ CompleteMatchTimer
    \/ KeepPlaying

SpecScenario == InitScenario /\ [][NextScenario]_vars

(***************************************************************************)
(* generateQuizQuestion as called by triggerQuiz: SpecQuiz starts after    *)
(* triggerQuiz's synchronous part, with the request in flight.             *)
(***************************************************************************)
\* the values drawn for question and answer
QuizFieldValues ==
    {JsUndefined, JsNull, JsString(""), JsString("C_mputer"), JsNumber(0),
     JsNumber(QuizNumber)}

\* the values drawn for type and explanation
QuizOptionalValues == {JsUndefined, JsString("rearrange")}

QuizTexts ==
    {TextUndefined, TextEmpty, TextInvalid, TextJson(JsonNull), TextJson(JsonArray)}
    \cup {TextJson(JsonObject(q, a, t, e)) :
              q \in QuizFieldValues, a \in QuizFieldValues,
              t \in QuizOptionalValues, e \in QuizOptionalValues}

QuizApiOutcomes ==
    {[kind |-> "returns", message |-> ""],
     [kind |-> "throws", message |-> ""],
     [kind |-> "throws", message |-> "fetch failed"]}

InitQuiz ==
    /\ bubbles = <<>> /\ nextId = 1 /\ moves = 0 /\ scoreRef = 0 /\ now = 0
    /\ lastDropTimeRef = 0 /\ canvasHeight = 0 /\ difficulty = "Easy"
    /\ isFlying = FALSE /\ isPinching = FALSE /\ isDragging = FALSE
    /\ ballPos = "anchor" /\ flightStartTime = 0
    /\ isQuizActiveRef = TRUE /\ pendingMatches = <<>>
    /\ quizLoading = TRUE /\ quizData = "null" /\ quizResult = "null"
    /\ loadsPending = 1 /\ timers = <<>>
    /\ currentAmmo = "red" /\ nextAmmo = "blue"
    /\ gameOver = FALSE /\ gameWon = FALSE /\ hasWonRef = FALSE
    /\ isPaused = FALSE /\ showLeaderboard = FALSE
    /\ matches = [start |-> 0, found |-> <<>>, expired |-> FALSE,
                 exited |-> FALSE]
    /\ floating = <<>>
    /\ pendingWait = 0
    /\ nbr = [a |-> [row |-> 0, col |-> 0], b |-> [row |-> 0, col |-> 0],
              applied |-> FALSE, ab |-> FALSE, ba |-> FALSE]
    /\ pick = PickIdle
    /\ answerCall = AnswerIdle
    /\ \E ai \in BOOLEAN, api \in QuizApiOutcomes, text \in QuizTexts :
          quizCall = [ai |-> ai, api |-> api, text |-> text, applied |-> FALSE,
                  res |-> Resolved(fallbackQuestion)]

\* const res = await generateQuizQuestion(...); setQuizData(res.quiz);
\* setQuizLoading(false): the last two run only if the promise resolves
AwaitGenerateQuizQuestion ==
    /\ ~quizCall.applied
    /\ LET res == generateQuizQuestion(quizCall.ai, quizCall.api, quizCall.text)
       IN  /\ quizCall' = [quizCall EXCEPT !.applied = TRUE, !.res = res]
           /\ IF res.settled = "resolved"
              THEN quizData' = "loaded" /\ quizLoading' = FALSE
                   /\ loadsPending' = 0
              ELSE UNCHANGED <<quizData, quizLoading, loadsPending>>
    /\ UNCHANGED <<bubbles, nextId, moves, scoreRef, now, lastDropTimeRef,
                   canvasHeight, difficulty, isFlying, isPinching, isDragging,
                   ballPos, flightStartTime, isQuizActiveRef, pendingMatches,
                   quizResult, timers, currentAmmo, nextAmmo, gameOver,
                   gameWon, hasWonRef, isPaused, matches, floating,
                   pendingWait, nbr, pick, showLeaderboard, answerCall>>

NextQuiz == AwaitGenerateQuizQuestion

SpecQuiz == InitQuiz /\ [][NextQuiz]_vars

(***************************************************************************)
(* The answer comparison as a pure function: SpecAnswer draws the text the *)
(* player typed and the expected answer, and submits.                      *)
(***************************************************************************)
AnswerChars == {"a", "A", " ", ".", "!"}

AnswerStrings == UNION {[1..n -> AnswerChars] : n \in 0..AnswerLen}

InitAnswer ==
    /\ GameIdle
    /\ nbr = [a |-> [row |-> 0, col |-> 0], b |-> [row |-> 0, col |-> 0],
              applied |-> FALSE, ab |-> FALSE, ba |-> FALSE]
    /\ pick = PickIdle
    /\ quizCall = QuizIdle
    /\ \E typed \in AnswerStrings, expected \in AnswerStrings :
          answerCall = [quizAnswer |-> typed, answer |-> expected,
                        applied |-> FALSE, isCorrect |-> FALSE]

SubmitAnswer ==
    /\ ~answerCall.applied
    /\ answerCall' = [answerCall EXCEPT
                         !.applied = TRUE,
                         !.isCorrect = isCorrectAnswer(answerCall.quizAnswer,
                                                       answerCall.answer)]
    /\ UNCHANGED <<gameVars, nbr, pick, quizCall>>

NextAnswer == SubmitAnswer

SpecAnswer == InitAnswer /\ [][NextAnswer]_vars

(***************************************************************************)
(* Properties of the game                                                  *)
(***************************************************************************)
SettledAt(bs) == {i \in 1..Len(bs) : Settled(bs[i])}

\* a step that runs completeMatch(true)
AwardedStep == skipQuiz \/ CompleteMatchTimer

\* the pendingMatches of the closure an awarded step runs
StepPending == IF Len(timers') < Len(timers) THEN Head(timers) ELSE pendingMatches

\* a frame whose flight step ended in a collision: checkMatches has run on
\* the bubble just pushed
HitStep == matches' # matches /\ matches'.start # 0

\* the ids reachable from the ids in S through isNeighbor over the settled
\* bubbles of bs whose colour is in colors
RECURSIVE ReachableIds(_, _, _)
ReachableIds(S, bs, colors) ==
    LET grown == S \cup {bs[j].id : j \in {k \in SettledAt(bs) :
                            /\ bs[k].color \in colors
                            /\ \E i \in 1..Len(bs) :
                                  bs[i].id \in S /\ isNeighbor(bs[i], bs[k])}}
    IN  IF grown = S THEN S ELSE ReachableIds(grown, bs, colors)

\* the settled bubbles of bs with no path to a settled row-0 bubble
OrphanIds(bs) ==
    LET ceiling == {bs[i].id : i \in {k \in SettledAt(bs) : bs[k].row = 0}}
        connected == ReachableIds(ceiling, bs, bubbleColors(bs))
    IN  {bs[i].id : i \in SettledAt(bs)} \ connected

\* bs with the bubbles of the pending set deactivated
Removed(bs, pm) ==
    [i \in 1..Len(bs) |->
        IF \E j \in 1..Len(pm) : pm[j].id = bs[i].id
        THEN [bs[i] EXCEPT !.active = FALSE] ELSE bs[i]]

\* C1: board-cell uniqueness: no two bubbles that are active and not
\* floating share the same (row, col), whatever sequence of initGrid, shot
\* insertions, row shifts and completeMatch resolutions has run.
C1_BoardCellUnique ==
    \A i \in SettledAt(bubbles) : \A j \in SettledAt(bubbles) :
        (bubbles[i].row = bubbles[j].row /\ bubbles[i].col = bubbles[j].col) => i = j

\* C2: while a match is pending nothing is aimed, launched or in flight, no
\* row is inserted, no match evaluation starts and the pending set stays the
\* same until completeMatch runs.
C2_PendingGatesPlay ==
    [][/\ isQuizActiveRef' => (~isFlying' /\ ~isPinching' /\ ~isDragging')
       /\ (isQuizActiveRef /\ isQuizActiveRef') =>
             /\ pendingMatches' = pendingMatches /\ pendingMatches # <<>>
             /\ moves' = moves /\ ballPos' = ballPos
             /\ lastDropTimeRef' = lastDropTimeRef
             /\ nextId' = nextId /\ Ids(bubbles') \subseteq Ids(bubbles)
             /\ \A i \in 1..Len(bubbles) : \A j \in 1..Len(bubbles') :
                   bubbles'[j].id = bubbles[i].id => bubbles'[j].row = bubbles[i].row
             /\ ~HitStep]_vars

\* C2 witness: a match is pending and the drop interval has elapsed.
C2_Witness ==
    /\ isQuizActiveRef /\ now - lastDropTimeRef > dropInterval

\* the bubble of bs with the given id
BubbleOf(bs, id) == bs[CHOOSE i \in 1..Len(bs) : bs[i].id = id]

\* C3: completeMatch(true) on a pending set of n bubbles of colour c that
\* leaves k orphans on the board after their removal adds exactly
\* n*points(c) + 2*k*points(c) + 500 to the score, a strict increase, and
\* (on the board it leaves, unless it reseeds an emptied board) the n bubbles
\* are inactive and the k orphans floating; completeMatch(false) leaves the
\* score unchanged.
C3_ConfirmScore ==
    [][/\ (AwardedStep /\ StepPending # <<>>) =>
             LET pm == StepPending
                 n == Len(pm)
                 points == COLOR_CONFIG[pm[1].color].points
                 orphans == OrphanIds(Removed(bubbles, pm))
                 k == Cardinality(orphans)
                 reseeded == Ids(bubbles') \cap Ids(bubbles) = {} /\ bubbles' # <<>>
             IN  /\ scoreRef' = scoreRef + n * points + 2 * k * points + 500
                 /\ scoreRef' > scoreRef
                 /\ ~reseeded =>
                       \A i \in 1..Len(bubbles') :
                          /\ (\E j \in 1..n : pm[j].id = bubbles'[i].id)
                                => ~bubbles'[i].active
                          /\ bubbles'[i].id \in orphans => bubbles'[i].isFloating
       /\ completeMatchFalse => scoreRef' = scoreRef]_vars

\* C3 witness: a completeMatch(true) has just scored a match that left
\* orphans: bubbles of the board are inactive, others float.
C3_Witness ==
    /\ scoreRef > 0 /\ floating # <<>>
    /\ \E i \in 1..Len(bubbles) : ~bubbles[i].active
    /\ \E i \in 1..Len(bubbles) : bubbles[i].active /\ bubbles[i].isFloating

\* the same-colour connected cluster of the bubble with id start in bs
ClusterIds(bs, start) ==
    ReachableIds({start}, bs, {BubbleOf(bs, start).color})

\* C4: match threshold: when the cluster of a newly placed bubble has size 1
\* or 2, no pending match starts and the bubble stays on the board; when it
\* has size 3 or more, a pending match starts with that cluster.
C4_MatchThreshold ==
    [][HitStep =>
          LET cluster == ClusterIds(bubbles', matches'.start)
          IN  IF Cardinality(cluster) < 3
              THEN /\ ~isQuizActiveRef' /\ pendingMatches' = <<>>
                   /\ Settled(BubbleOf(bubbles', matches'.start))
              ELSE /\ isQuizActiveRef'
                   /\ {pendingMatches'[i].id : i \in 1..Len(pendingMatches')} = cluster
                   /\ Len(pendingMatches') = Cardinality(cluster)]_vars

\* C4 witness: a placed bubble made a cluster of exactly two and play goes on.
C4_Witness ==
    /\ matches.start # 0 /\ Len(matches.found) = 2
    /\ ~isQuizActiveRef /\ \E i \in 1..Len(bubbles) : bubbles[i].id = matches.start

Reverse(s) == [i \in 1..Len(s) |-> s[Len(s) + 1 - i]]

\* C5: the set checkMatches(start) computes contains start, its members have
\* start's colour and are active and not floating, every active non-floating
\* bubble of that colour adjacent to a member is a member, and the set is the
\* same when the bubbles array is traversed in the opposite order.
C5_ClusterPureMaximal ==
    [][HitStep =>
          LET bs == bubbles'
              start == BubbleOf(bs, matches'.start)
              found == SeqToSet(matches'.found)
          IN  /\ start.id \in found
              /\ \A id \in found :
                    /\ BubbleOf(bs, id).color = start.color
                    /\ Settled(BubbleOf(bs, id)) \/ id = start.id
              /\ \A j \in SettledAt(bs) :
                    (/\ bs[j].color = start.color
                     /\ \E id \in found : isNeighbor(BubbleOf(bs, id), bs[j]))
                       => bs[j].id \in found
              /\ Ids(checkMatchesArray(Reverse(bs), start)) = found
              /\ Len(matches'.found) = Cardinality(found)]_vars

\* C5 witness: checkMatches found a cluster of three or more while a
\* bubble of the other colour touches the new bubble.
C5_Witness ==
    /\ matches.start # 0 /\ Len(matches.found) >= 3
    /\ \E i \in SettledAt(bubbles) :
          /\ bubbles[i].id \notin SeqToSet(matches.found)
          /\ \E j \in 1..Len(bubbles) :
                bubbles[j].id = matches.start /\ isNeighbor(bubbles[j], bubbles[i])

\* C6: findFloatingBubbles returns exactly the active non-floating bubbles
\* with no path, through isNeighbor over active non-floating bubbles of any
\* colour, to an active non-floating bubble of row 0.
C6_OrphansExact ==
    [][AwardedStep =>
          /\ SeqToSet(floating') = OrphanIds(Removed(bubbles, StepPending))
          /\ Len(floating') = Cardinality(SeqToSet(floating'))]_vars

\* C6 witness: findFloatingBubbles returned an orphan while a bubble below
\* row 0 stayed connected to the ceiling.
C6_Witness ==
    /\ floating # <<>>
    /\ \E i \in SettledAt(bubbles) : bubbles[i].row > 0

RowInserted == lastDropTimeRef' # lastDropTimeRef /\ ~AwardedStep

\* C10: the time spent awaiting confirmation is not counted toward
\* dropInterval: when the auto drop inserts a row, the time since the last
\* drop, less the time spent with a match pending, exceeds dropInterval.
C10_WaitNotCounted ==
    [][RowInserted =>
          (now' - lastDropTimeRef) - pendingWait > dropInterval]_vars

\* C11: flight watchdog: the first processed frame more than 5000 ms after
\* the launch puts a projectile still in flight back at the anchor, not
\* flying; and while frames are processed no flight lasts forever.
C11_FlightWatchdog ==
    /\ [][(flightRunning /\ now' - flightStartTime > FLIGHT_WATCHDOG /\ Frame)
             => (~isFlying' /\ ballPos' = "anchor" /\ bubbles' = physicsLoop(bubbles, now'))]_vars
    /\ isFlying ~> (~isFlying \/ isPaused \/ gameOver)

\* C11 witness: a frame has just given up a flight that was launched more
\* than 5000 ms before.
C11_Witness ==
    /\ matches.expired /\ ~isFlying /\ ballPos = "anchor"
    /\ now - flightStartTime > FLIGHT_WATCHDOG

\* a step shifts the rows: a bubble that stays on the board is one row down
RowShift ==
    \E i \in 1..Len(bubbles) : \E j \in 1..Len(bubbles') :
        bubbles'[j].id = bubbles[i].id /\ bubbles'[j].row = bubbles[i].row + 1

\* after a shift of bs the lowest active bubble's y is past the threshold
PastThreshold(bs) ==
    \E i \in 1..Len(bs) :
        /\ bs[i].active
        /\ getBubblePos(bs[i].row + 1, bs[i].col, canvasWidth).y
              > canvasHeight * Unit - SLINGSHOT_BOTTOM_OFFSET - 80 * Unit

\* C12: spawn-threshold loss: a row shift happens only in a round that is not
\* lost; it sets the round to lost exactly when the lowest active bubble's
\* computed y then exceeds canvasHeight - SLINGSHOT_BOTTOM_OFFSET - 80, and
\* in that case adds no new row; otherwise it adds the new row at row 0.
C12_SpawnThresholdLoss ==
    [][RowShift =>
          /\ ~gameOver
          /\ gameOver' = PastThreshold(bubbles)
          /\ PastThreshold(bubbles) =>
                /\ nextId' = nextId /\ lastDropTimeRef' = lastDropTimeRef
                /\ \A j \in 1..Len(bubbles') : bubbles'[j].row > 0
          /\ ~PastThreshold(bubbles) =>
                /\ lastDropTimeRef' = now'
                /\ \A j \in 1..Len(bubbles') :
                      bubbles'[j].row = 0 <=> bubbles'[j].id >= nextId]_vars

\* C12 witness: on the taller canvas the second row shift has ended the
\* round: the initial row is at row 2 and no row was added above row 1.
C12_Witness ==
    /\ gameOver /\ canvasHeight = 370
    /\ \E i \in 1..Len(bubbles) : bubbles[i].active /\ bubbles[i].row = 2
    /\ \E i \in 1..Len(bubbles) : bubbles[i].row = 1
    /\ \A i \in 1..Len(bubbles) : bubbles[i].row > 0

\* C13: win check: a completeMatch(true) on a difficulty other than Infinity
\* that leaves the score at or above winScore in a round not yet marked won
\* leaves the round won; and the round turns won only if it was not marked
\* won before.
C13_WinCheck ==
    [][/\ (AwardedStep /\ difficulty # "Infinity" /\ ~hasWonRef
            /\ scoreRef' >= winScore(difficulty)) => (gameWon' /\ hasWonRef')
       /\ (~gameWon /\ gameWon') => ~hasWonRef]_vars

\* C14: on the Infinity difficulty the round is never in the won state,
\* whatever the score.
C14_EndlessNeverWon ==
    difficulty = "Infinity" => (~gameWon /\ ~hasWonRef /\ ~isPaused)

\* C14 witness: on Infinity a completeMatch(true) has left the score at or
\* above the win score of another difficulty, with bubbles popped.
C14_Witness ==
    /\ difficulty = "Infinity" /\ scoreRef >= winScore("Easy")
    /\ \E i \in 1..Len(bubbles) : ~bubbles[i].active

\* a step that runs completeMatch, awarded or not
ResolutionStep == AwardedStep \/ completeMatchFalse

\* bs is a grid initGrid has just built with ids from id0 on: rows
\* 0..initialRows-1 only, one bubble per cell, all active and not floating
FreshGrid(bs, id0) ==
    /\ \A i \in 1..Len(bs) :
          /\ bs[i].id >= id0 /\ bs[i].active /\ ~bs[i].isFloating
          /\ bs[i].popTime = -1
          /\ bs[i].row \in 0..(initialRows(difficulty) - 1)
          /\ bs[i].col \in 0..(colsInRow(bs[i].row) - 1)
    /\ \A i \in 1..Len(bs) : \A j \in 1..Len(bs) :
          (bs[i].row = bs[j].row /\ bs[i].col = bs[j].col) => i = j

\* C15: reseed on clear: when a resolution of a pending match leaves no
\* active non-floating bubble, the whole collection is replaced by a fresh
\* initial grid of the difficulty and the score is kept (with the award of
\* the resolution); when it leaves one, the collection is not replaced.
C15_ReseedOnClear ==
    [][ResolutionStep =>
          LET awarded == ~completeMatchFalse
              after == IF awarded THEN Removed(bubbles, StepPending) ELSE bubbles
              orphans == IF awarded THEN OrphanIds(after) ELSE {}
              cleared == \A i \in SettledAt(after) : after[i].id \in orphans
          IN  IF cleared
              THEN /\ FreshGrid(bubbles', nextId)
                   /\ scoreRef' >= scoreRef /\ (awarded => scoreRef' > 0)
                   /\ ~gameOver'
              ELSE Ids(bubbles') = Ids(bubbles)]_vars

\* C15 witness: a resolution has reseeded the board: the score is kept and
\* every bubble is a settled one newer than those of the first grid and of
\* the shots.
C15_Witness ==
    /\ scoreRef > 0 /\ bubbles # <<>> /\ ~isQuizActiveRef
    /\ nextId - Len(bubbles) > GridCols + 1
    /\ \A i \in 1..Len(bubbles) :
          bubbles[i].id >= nextId - Len(bubbles) /\ Settled(bubbles[i])
    /\ lastDropTimeRef = now /\ floating # <<>>

\* C16: completeMatch(false) clears the pending set and changes nothing else
\* on the board: every bubble keeps its fields, the pending bubbles stay
\* active, and the score and the won flag are unchanged.
C16_UnawardedKeepsBoard ==
    [][completeMatchFalse =>
          /\ pendingMatches' = <<>> /\ ~isQuizActiveRef'
          /\ bubbles' = bubbles
          /\ \A j \in 1..Len(pendingMatches) : \E i \in 1..Len(bubbles') :
                bubbles'[i].id = pendingMatches[j].id /\ Settled(bubbles'[i])
          /\ scoreRef' = scoreRef
          /\ gameWon' = gameWon /\ hasWonRef' = hasWonRef]_vars

\* C16 witness: right after the frame that found a cluster of three or more,
\* the match is no longer pending and the whole cluster is still settled on
\* the board.
C16_Witness ==
    /\ Len(matches.found) >= MIN_CLUSTER /\ ~isQuizActiveRef
    /\ pendingMatches = <<>>
    /\ \A j \in 1..Len(matches.found) : \E i \in 1..Len(bubbles) :
          bubbles[i].id = matches.found[j] /\ Settled(bubbles[i])

\* the board of the scenario: the all-red grid with the red projectile
\* settled in row 3, and the match just found on it pending
ScenarioPending ==
    /\ isQuizActiveRef /\ scoreRef = 0 /\ Len(bubbles) = 10
    /\ \A i \in 1..10 : bubbles[i].color = "red" /\ Settled(bubbles[i])
    /\ \A i \in 1..9 : bubbles[i] = ScenarioGrid("red")[i]
    /\ bubbles[10].row = 3

\* a red projectile settles in row 3 on the all-red grid
ScenarioShot ==
    /\ ScenarioSettle /\ bubbles = ScenarioGrid("red") /\ currentAmmo = "red"

\* the first resolution of the scenario's pending match, awarded
ScenarioConfirm ==
    ScenarioPending /\ AwardedStep /\ StepPending = pendingMatches

\* C17 as stated: the red projectile that settles in row 3 yields a pending
\* match, and confirming it deactivates the 9 grid bubbles, adds 9*100 + 500
\* to the score, leaves no settled bubble and reseeds.
C17_Original ==
    [][/\ ScenarioShot => ScenarioPending'
       /\ ScenarioConfirm =>
             /\ \A i \in 1..9 : \E j \in 1..Len(pendingMatches) :
                   pendingMatches[j].id = bubbles[i].id
             /\ scoreRef' = scoreRef + 9 * 100 + 500
             /\ FreshGrid(bubbles', nextId)]_vars

\* C17 amended: the pending match holds the 9 grid bubbles and the
\* projectile; confirming it deactivates all 10, adds 10*100 + 500 to the
\* score, leaves no settled bubble and reseeds.
C17_RoundTrip ==
    [][/\ ScenarioShot =>
             /\ ScenarioPending'
             /\ {pendingMatches'[j].id : j \in 1..Len(pendingMatches')} = 1..10
             /\ Len(pendingMatches') = 10
       /\ ScenarioConfirm =>
             /\ OrphanIds(Removed(bubbles, pendingMatches)) = {}
             /\ SettledAt(Removed(bubbles, pendingMatches)) = {}
             /\ scoreRef' = scoreRef + 10 * 100 + 500
             /\ FreshGrid(bubbles', nextId)
             /\ ~isQuizActiveRef' /\ pendingMatches' = <<>>]_vars

\* C17 witness: the scenario's match has been confirmed: the score is that of
\* one resolution and the board is a reseeded grid.
C17_Witness ==
    /\ scoreRef = 10 * 100 + 500 /\ ~isQuizActiveRef /\ nextId > 11
    /\ matches.start = 10 /\ Len(matches.found) = 10
    /\ bubbles # <<>> /\ FreshGrid(bubbles, 11)

\* the colours active on the board handed to getNextBubbleColor
PickActive ==
    {pick.board[i].color : i \in {j \in 1..Len(pick.board) : pick.board[j].active}}

\* C18: ColorPolicy: getNextBubbleColor draws from the active colours minus
\* the forbidden ones (or, on the difficulty's chance, from the palette minus
\* the forbidden ones); when no active colour is left it draws from the
\* palette minus the forbidden ones; only when that is empty too may it
\* return an arbitrary palette colour.  So it never returns a forbidden
\* colour while some palette colour is not forbidden, whatever the board,
\* a board with no active bubble included.
C18_ColorPolicy ==
    pick.applied =>
        /\ pick.color \in COLOR_KEYS
        /\ COLOR_KEYS \ pick.forbidden # {} => pick.color \notin pick.forbidden

\* the policy on boards that have an active bubble, where the code follows it
C18_ActiveBoard ==
    (pick.applied /\ PickActive # {}) =>
        /\ pick.color \in COLOR_KEYS
        /\ COLOR_KEYS \ pick.forbidden # {} => pick.color \notin pick.forbidden

\* a forbidden colour returned for a board with no active bubble
C18_Witness ==
    /\ pick.applied
    /\ PickActive = {}
    /\ COLOR_KEYS \ pick.forbidden # {}
    /\ pick.color \in pick.forbidden

\* a value that is there and is not the empty string
NonEmpty(v) == v.kind \in {"string", "number"} /\ (v.kind = "string" => v.s # "")

\* the cases C19 lists: no API key, the API call throws, the response is not
\* valid JSON, or the JSON lacks a question or an answer
QuizFailure ==
    \/ ~quizCall.ai
    \/ quizCall.api.kind = "throws"
    \/ quizCall.text.kind = "invalid"
    \/ /\ quizCall.text.kind = "json"
       /\ \/ quizCall.text.json.kind # "object"
          \/ ~NonEmpty(quizCall.text.json.question)
          \/ ~NonEmpty(quizCall.text.json.answer)

\* C19: the trivia fallback is total: generateQuizQuestion never rejects and
\* always resolves with a quiz whose question and answer are non-empty; when
\* the API key is missing, the API call throws, the response is not valid
\* JSON or lacks question/answer, it resolves with the fixed fallback
\* question (answer 'Apple'); so the quiz stops loading and Skip, hence the
\* confirm path, is available.
C19_FallbackTotal ==
    quizCall.applied =>
        /\ quizCall.res.settled = "resolved"
        /\ NonEmpty(quizCall.res.quiz.question)
        /\ NonEmpty(quizCall.res.quiz.answer)
        /\ QuizFailure =>
              /\ quizCall.res.quiz = fallbackQuestion
              /\ quizCall.res.quiz.answer = JsString("Apple")
        /\ ~quizLoading
        /\ quizData # "null"
        /\ SkipShown

\* the fallback was served for a response whose JSON has no answer
C19_Witness ==
    /\ quizCall.applied
    /\ quizCall.ai /\ quizCall.api.kind = "returns"
    /\ quizCall.text.kind = "json" /\ quizCall.text.json.kind = "object"
    /\ NonEmpty(quizCall.text.json.question)
    /\ ~NonEmpty(quizCall.text.json.answer)
    /\ quizCall.res.quiz = fallbackQuestion
    /\ ~quizLoading

\* a step that starts the round over: the Restart button, or the leaderboard
\* closed after a lost round
RestartStep == Restart \/ (gameOver /\ closeLeaderboard)

\* C20: the score is monotone within a round: no shot, miss, row insertion,
\* resolution or board-clear reseed decreases it, it changes only in
\* completeMatch(true), and only an explicit restart sets it back to 0.
C20_ScoreMonotone ==
    [][/\ scoreRef' > scoreRef => AwardedStep
       /\ scoreRef' < scoreRef => (scoreRef' = 0 /\ RestartStep)
       /\ (gameWon /\ RestartStep) => scoreRef' = 0
       /\ (gameOver /\ RestartStep) => scoreRef' = 0]_vars

\* a round restarted from the victory overlay: the score is back at 0 on a
\* fresh grid, the game still paused by the win
C20_Witness ==
    /\ scoreRef = 0
    /\ isPaused /\ ~showLeaderboard /\ ~gameWon
    /\ bubbles # <<>>
    /\ bubbles[1].id > 1

\* a score that grew across a board-clear reseed
C20_ReseedWitness ==
    /\ scoreRef > 0
    /\ bubbles # <<>>
    /\ bubbles[1].id > 1
    /\ \A i \in 1..Len(bubbles) : Settled(bubbles[i])

\* the form C21 compares: case ignored, every '.', ',' and '!' removed, the
\* surrounding whitespace of what is left trimmed
AnswerForm(s) == trim(stripPunctuation(toLowerCase(s)))

\* C21: answer matching: the answer is judged correct exactly when the
\* player's text and the expected answer are equal after ignoring case,
\* removing every '.', ',' and '!' and trimming surrounding whitespace, so
\* two strings that differ only in those respects are judged equal.
C21_AnswerMatching ==
    answerCall.applied =>
        (answerCall.isCorrect <=>
            AnswerForm(answerCall.quizAnswer) = AnswerForm(answerCall.answer))

\* what the comparison does guarantee: texts it judges equal have the same
\* form
C21_JudgedEqualSameForm ==
    (answerCall.applied /\ answerCall.isCorrect) =>
        AnswerForm(answerCall.quizAnswer) = AnswerForm(answerCall.answer)

\* an answer judged wrong although it differs from the expected one only by
\* punctuation and the whitespace next to it
C21_Witness ==
    /\ answerCall.applied
    /\ ~answerCall.isCorrect
    /\ AnswerForm(answerCall.quizAnswer) = AnswerForm(answerCall.answer)

\* every bubble of the set pm is in the collection and not yet popped
Unresolved(pm) ==
    \A j \in 1..Len(pm) : \E i \in 1..Len(bubbles) :
        bubbles[i].id = pm[j].id /\ bubbles[i].active

\* C22: each detected match is resolved at most once: whatever the
\* interleaving of Skip with the 1200 ms timer of a correct answer, a
\* completeMatch(true) awards a set whose bubbles have not been popped
\* before, and a timer that belongs to an already-resolved match does not
\* clear the match that is pending now.
C22_ResolvedOnce ==
    [][/\ (SkipShown /\ skipQuiz) => Unresolved(pendingMatches)
       /\ (timers # <<>> /\ CompleteMatchTimer) =>
              /\ Unresolved(Head(timers))
              /\ pendingMatches = Head(timers)]_vars

\* a set awarded a second time: the timer of a match that Skip has already
\* resolved is still scheduled, its bubbles popped and its points counted
C22_Witness ==
    /\ timers # <<>>
    /\ Head(timers) # <<>>
    /\ ~Unresolved(Head(timers))
    /\ scoreRef > 0

\* a frame in which the flight ended with a new bubble pushed
SnapStep == isFlying /\ ~isFlying' /\ nextId' = nextId + 1

\* the indexes of the scan window's cells that no settled bubble of bs holds
FreeScanCells(bs) ==
    {i \in 1..Len(ScanCells) :
        \A k \in 1..Len(bs) :
            ~(Settled(bs[k]) /\ bs[k].row = ScanCells[i].row
                             /\ bs[k].col = ScanCells[i].col)}

\* the bubble newB sits at the free cell nearest to some collision point of
\* the board bs, the first such cell in scan order
NearestFree(newB, bs) ==
    \E i \in FreeScanCells(bs) :
        /\ ScanCells[i].row = newB.row /\ ScanCells[i].col = newB.col
        /\ \E p \in BallPoints :
              /\ collisionAt(p, bs)
              /\ \A j \in FreeScanCells(bs) :
                    LET di == dist2(p, getBubblePos(ScanCells[i].row, ScanCells[i].col, canvasWidth))
                        dj == dist2(p, getBubblePos(ScanCells[j].row, ScanCells[j].col, canvasWidth))
                    IN  di <= dj /\ (j < i => di < dj)

\* C23: snap resolution: on collision the new bubble gets the loaded ammo
\* colour and is placed at a cell of the scan window that no active
\* non-floating bubble occupies and whose centre is nearest to the
\* projectile among the unoccupied cells, ties going to the first cell in
\* row-major scan order.
C23_SnapResolution ==
    [][SnapStep =>
          LET newB == bubbles'[Len(bubbles')]
              old == SubSeq(bubbles', 1, Len(bubbles') - 1)
          IN  /\ newB.color = currentAmmo
              /\ NearestFree(newB, old)]_vars

\* the same while the scan window has an unoccupied cell, where the snap
\* loop does what C23 says
C23_SnapWhenFree ==
    [][SnapStep =>
          LET newB == bubbles'[Len(bubbles')]
              old == SubSeq(bubbles', 1, Len(bubbles') - 1)
          IN  /\ newB.color = currentAmmo
              /\ FreeScanCells(old) # {} => NearestFree(newB, old)]_vars

\* a bubble snapped onto a cell that another settled bubble holds
C23_Witness ==
    /\ bubbles # <<>>
    /\ Settled(bubbles[Len(bubbles)])
    /\ \E k \in 1..(Len(bubbles) - 1) :
          /\ Settled(bubbles[k])
          /\ bubbles[k].row = bubbles[Len(bubbles)].row
          /\ bubbles[k].col = bubbles[Len(bubbles)].col

\* a frame in which addNewRow pushed a new top row
NewRowPushed == RowShift /\ ~gameOver' /\ nextId' > nextId

IsNewRowBubble(b) == b.row = 0

\* the new top row in column order, as the state after the frame shows it
NewRowAfter == SelectSeq(bubbles', IsNewRowBubble)

\* C24 as stated: the forbidden list passed for each populated cell of the
\* new row contains the colour of the immediately preceding populated cell.
C24_Original ==
    [][NewRowPushed =>
          \A k \in 2..Len(NewRowAfter) :
              NewRowAfter[k - 1].color
                  \in rowForbidden(SubSeq(NewRowAfter, 1, k - 1))]_vars

\* C24: when addNewRow populates the new top row, the forbidden list passed
\* for a populated cell holds the colour of the immediately preceding
\* populated cell exactly when the two preceding populated cells of the new
\* row have the same colour, and is empty otherwise; so, on a board with an
\* active bubble, no three consecutive populated cells of the new row share
\* a colour, while two may.
C24_ForbiddenAfterPair ==
    [][NewRowPushed =>
          \A k \in 1..Len(NewRowAfter) :
              LET forbidden == rowForbidden(SubSeq(NewRowAfter, 1, k - 1))
                  pair == k >= 3 /\ NewRowAfter[k - 1].color = NewRowAfter[k - 2].color
              IN  /\ pair => forbidden = {NewRowAfter[k - 1].color}
                  /\ ~pair => forbidden = {}
                  /\ (pair /\ \E i \in 1..Len(bubbles) : bubbles[i].active)
                        => NewRowAfter[k].color # NewRowAfter[k - 1].color]_vars

\* a new top row whose first two bubbles share a colour and whose third has
\* another one
C24_Witness ==
    /\ now > 1 /\ lastDropTimeRef = now
    /\ \E i, j, k \in 1..Len(bubbles) :
          /\ bubbles[i].row = 0 /\ bubbles[j].row = 0 /\ bubbles[k].row = 0
          /\ bubbles[i].col = 0 /\ bubbles[j].col = 1 /\ bubbles[k].col = 2
          /\ bubbles[i].id >= nextId - gridColsRef
          /\ bubbles[i].color = bubbles[j].color
          /\ bubbles[k].color # bubbles[j].color
    /\ \E i \in 1..Len(bubbles) : bubbles[i].row = 1

\* a frame that ended a flight by the watchdog or by the bottom exit
MissStep == isFlying /\ ~isQuizActiveRef /\ (matches'.expired \/ matches'.exited)

\* C25: miss outcomes: when a flight ends by the watchdog or by the
\* projectile leaving the bottom of the play area, no bubble is inserted and
\* the board (but for the frame's own physics and purge), the score, the
\* current and next ammo colours and the pending set are unchanged; the
\* projectile ends the frame not flying, at the anchor.
C25_MissOutcomes ==
    [][MissStep =>
          /\ nextId' = nextId
          /\ bubbles' = physicsLoop(bubbles, now')
          /\ SelectSeq(bubbles', Settled) = SelectSeq(bubbles, Settled)
          /\ scoreRef' = scoreRef
          /\ currentAmmo' = currentAmmo /\ nextAmmo' = nextAmmo
          /\ pendingMatches' = pendingMatches
          /\ gameOver' = gameOver
          /\ ~isFlying' /\ ballPos' = "anchor"]_vars

\* a flight that left through the bottom edge: the projectile is back at the
\* anchor and the board holds no bubble beyond the initial row
C25_Witness ==
    /\ matches.exited /\ ~isFlying /\ ballPos = "anchor"
    /\ moves > 0
    /\ \A i \in 1..Len(bubbles) : bubbles[i].id < nextId

\* every bubble that is active before the step is still in the collection
\* after it
ActiveRetained ==
    \A i \in 1..Len(bubbles) :
        bubbles[i].active => \E j \in 1..Len(bubbles') : bubbles'[j].id = bubbles[i].id

\* no bubble that is inactive before the step is active after it
NeverReactivated ==
    \A i \in 1..Len(bubbles) : \A j \in 1..Len(bubbles') :
        (bubbles'[j].id = bubbles[i].id /\ ~bubbles[i].active) => ~bubbles'[j].active

\* after the step the collection holds a popped bubble whose POP_DURATION
\* has elapsed
ExpiredLeft ==
    \E j \in 1..Len(bubbles') :
        ~bubbles'[j].active /\ now' - bubbles'[j].popTime >= POP_DURATION

\* C26: sphere lifecycle: a bubble deactivated by completeMatch is not
\* removed from the collection in that step, is never made active again,
\* and a frame that is processed removes it once POP_DURATION has elapsed
\* since its pop time.
C26_SphereLifecycle ==
    [][/\ scoreRef' > scoreRef => ActiveRetained
       /\ NeverReactivated
       /\ ExpiredLeft => ~(~isPaused /\ ~gameOver /\ Frame)]_vars

\* the same for a completeMatch that does not reseed the board, where the
\* popped bubbles do stay for their fade
C26_RetainedUnlessReseed ==
    [][/\ (scoreRef' > scoreRef /\ nextId' = nextId) =>
              /\ ActiveRetained
              /\ \E j \in 1..Len(bubbles') :
                    ~bubbles'[j].active /\ bubbles'[j].popTime = now
       /\ NeverReactivated
       /\ ExpiredLeft => ~(~isPaused /\ ~gameOver /\ Frame)]_vars

\* a board reseeded by the completeMatch that popped its last cluster: points
\* were scored at this instant and no popped bubble is left to fade
C26_Witness ==
    /\ scoreRef > 0
    /\ lastDropTimeRef = now /\ pendingWait = 0
    /\ ~isQuizActiveRef /\ quizData = "null"
    /\ bubbles # <<>>
    /\ \A i \in 1..Len(bubbles) : Settled(bubbles[i]) /\ bubbles[i].row = 0
    /\ bubbles[1].id > 1

\* C27: row shifting preserves adjacency: for any two active non-floating
\* bubbles present before addNewRow, isNeighbor after the shift (both rows
\* incremented by one, columns unchanged) equals isNeighbor before it.
C27_ShiftKeepsAdjacency ==
    [][RowShift =>
          \A i \in SettledAt(bubbles) : \A j \in SettledAt(bubbles) :
              \A k \in 1..Len(bubbles') : \A l \in 1..Len(bubbles') :
                  (/\ bubbles'[k].id = bubbles[i].id
                   /\ bubbles'[l].id = bubbles[j].id
                   /\ bubbles'[k].row = bubbles[i].row + 1
                   /\ bubbles'[l].row = bubbles[j].row + 1)
                  => (isNeighbor(bubbles'[k], bubbles'[l])
                        <=> isNeighbor(bubbles[i], bubbles[j]))]_vars

\* what a shift does preserve: adjacency within a row
C27_ShiftKeepsRowAdjacency ==
    [][RowShift =>
          \A i \in SettledAt(bubbles) : \A j \in SettledAt(bubbles) :
              \A k \in 1..Len(bubbles') : \A l \in 1..Len(bubbles') :
                  (/\ bubbles'[k].id = bubbles[i].id
                   /\ bubbles'[l].id = bubbles[j].id
                   /\ bubbles[i].row = bubbles[j].row)
                  => (isNeighbor(bubbles'[k], bubbles'[l])
                        <=> isNeighbor(bubbles[i], bubbles[j]))]_vars

\* two settled bubbles in consecutive rows that a shift has disconnected:
\* they sit where bubbles of an even and the next odd row touch, one row
\* further down
C27_Witness ==
    \E i \in SettledAt(bubbles) : \E j \in SettledAt(bubbles) :
        /\ bubbles[i].row = 1 /\ bubbles[j].row = 2
        /\ bubbles[j].col = bubbles[i].col - 1
        /\ ~isNeighbor(bubbles[i], bubbles[j])
        /\ isNeighbor([row |-> 0, col |-> bubbles[i].col],
                      [row |-> 1, col |-> bubbles[j].col])

\* C28: a new row is never inserted while the projectile is in flight or
\* being aimed (pinch or touch-drag engaged), nor while the game is paused
\* or already lost: addNewRow runs only in a frame that starts with the
\* projectile idle and no match pending.
C28_NoRowWhileBusy ==
    [][(RowShift \/ (lastDropTimeRef' = now' /\ now' > now)) =>
          /\ ~isFlying /\ ~isPinching /\ ~isDragging
          /\ ~isPaused /\ ~gameOver
          /\ ~isQuizActiveRef /\ pendingMatches = <<>>
          /\ ballPos = "anchor"]_vars

\* touch-dragging always has the pinch flag up, which is what keeps the
\* auto drop away during a drag
C28_DragHoldsPinch == isDragging => isPinching

\* the drop interval has run out while the player is aiming, by pinch or by
\* touch-drag, and no row has come
C28_Witness ==
    /\ isPinching /\ ~isFlying /\ ~isQuizActiveRef
    /\ ~isPaused /\ ~gameOver
    /\ now - lastDropTimeRef > dropInterval

\* the same during a touch-drag
C28_DragWitness ==
    /\ isDragging /\ ~isFlying /\ ~isQuizActiveRef
    /\ ~isPaused /\ ~gameOver
    /\ now - lastDropTimeRef > dropInterval

\* an active non-floating bubble of bs lies below the loss line
SettledBelowLine(bs) ==
    \E i \in 1..Len(bs) : Settled(bs[i]) /\ gridY(bs[i]) > lossLine

\* while the round is not lost no active non-floating bubble lies below the
\* loss line
C29_NoneBelowWhileOn == ~gameOver => ~SettledBelowLine(bubbles)

\* C29: loss-line invariant: from an initial grid above the loss line, in
\* every reachable state in which the round is not lost no active
\* non-floating bubble lies below the loss line, and a row shift sets the
\* round lost only when an active non-floating bubble then lies below it: a
\* floating bubble alone never causes the loss.
C29_LossLine ==
    /\ [](~gameOver => ~SettledBelowLine(bubbles))
    /\ [][(RowShift /\ gameOver') => SettledBelowLine(shiftDown(bubbles))]_vars

\* a round lost by a row shift although every active non-floating bubble is
\* above the loss line: a floating bubble is on the board
C29_Witness ==
    /\ gameOver
    /\ ~SettledBelowLine(bubbles)
    /\ \E i \in 1..Len(bubbles) :
          bubbles[i].active /\ bubbles[i].isFloating /\ gridY(bubbles[i]) > lossLine
    /\ \A i \in 1..Len(bubbles) : bubbles[i].row > 0

\* a floating bubble is in the collection
FloatingPresent ==
    \E i \in 1..Len(bubbles) : bubbles[i].active /\ bubbles[i].isFloating

\* C30: a bubble marked floating by completeMatch never counts as settled
\* again, whatever row insertions come in between, and is eventually
\* removed from the collection, provided frames keep being processed (the
\* game neither paused nor lost).
C30_FloatingRemoved ==
    /\ [][\A i \in 1..Len(bubbles) : \A j \in 1..Len(bubbles') :
             (bubbles'[j].id = bubbles[i].id /\ bubbles[i].isFloating)
                => (bubbles'[j].isFloating /\ ~Settled(bubbles'[j]))]_vars
    /\ FloatingPresent ~> (~FloatingPresent \/ isPaused \/ gameOver)

\* a floating bubble that a row insertion has moved one row down while it
\* was falling
C30_Witness ==
    /\ ~gameOver /\ ~isPaused
    /\ lastDropTimeRef = now
    /\ \E i \in 1..Len(bubbles) :
          /\ bubbles[i].active /\ bubbles[i].isFloating
          /\ bubbles[i].row >= 1
    /\ \E i \in 1..Len(bubbles) : bubbles[i].row = 0 /\ bubbles[i].id >= nextId - gridColsRef

====
